---------------------------- MODULE Spec2Model ----------------------------
(***************************************************************************)
(* NES Staff Scorecard: the scoring engine (rubric lookups, the three      *)
(* category scorers, rubric resolution by month, computeScoresForEmployee) *)
(* and the supervisor submission endpoint that triggers it, over the       *)
(* relational store declared in the schema.                                *)
(*                                                                         *)
(* Four specifications share the variables:                                *)
(*   Spec          concurrent submission requests, each followed by its    *)
(*                 recompute                                               *)
(*   SerialSpec    requests and direct recompute calls one at a time, with *)
(*                 a rubric version published at any point                 *)
(*   ScorerSpec    the pure scorers applied to enumerated payloads/rubrics *)
(*   ResolverSpec  rubric publication and getRubricForMonth                *)
(***************************************************************************)
EXTENDS Integers, Sequences, FiniteSets, TLC

(***************************************************************************)
(* Values                                                                  *)
(***************************************************************************)

\* A nullable number (number | null) is the empty set or a singleton.
NULL == {}

Some(v) == {v}

Val(x) == CHOOSE v \in x : TRUE

Max(a, b) == IF a >= b THEN a ELSE b

Roles == {"admin", "supervisor", "recruiter"}

SupervisorMetrics ==
    <<"attitude", "reliability", "proactivity", "flexibility", "individual_interaction">>

AdminMetrics ==
    <<"isp_goal_errors", "isp_behavior_errors", "mar_errors",
      "attendance_tardies_callouts", "attendance_ncns">>

supervisorRatings ==
    {"Outstanding", "Exceeds Expectations", "Meets Expectations",
     "Needs Improvement", "Unsatisfactory"}

(***************************************************************************)
(* Rubrics.  Weights are held in hundredths (0.4 is 40) so that the        *)
(* weighted sum is exact integer arithmetic.  A Record<string, number> is  *)
(* a function whose DOMAIN is the set of keys present.                     *)
(***************************************************************************)

DefaultBuckets ==
    << [min |-> 1, max |-> 2, deduction |-> 5],
       [min |-> 3, max |-> 5, deduction |-> 10],
       [min |-> 6, max |-> 999, deduction |-> 20] >>

DEFAULT_RUBRIC_V1 ==
    [ weights |-> [admin |-> 40, supervisor |-> 40, recruiter |-> 20],
      supervisor_rating_map |->
          [l \in supervisorRatings |->
              CASE l = "Outstanding" -> 0
                [] l = "Exceeds Expectations" -> 3
                [] l = "Meets Expectations" -> 8
                [] l = "Needs Improvement" -> 13
                [] OTHER -> 20],
      supervisor_metrics |-> SupervisorMetrics,
      admin_rules |-> [metrics |->
          [m \in {AdminMetrics[i] : i \in 1..5} |-> DefaultBuckets]],
      recruiter_rules |->
          [ overdue_training_penalty_per |-> 15,
            eda_penalty |-> [k \in {"1", "2+"} |-> IF k = "1" THEN 40 ELSE 80],
            retraining_penalty |-> [k \in {"1", "2+"} |-> IF k = "1" THEN 5 ELSE 10] ] ]

\* Other documents of the RubricV1 shape, as a publisher may store them.
\* With weights 0.5/0.25/0.25 the weighted sum can fall exactly on a half.
RubricHalves ==
    [ DEFAULT_RUBRIC_V1 EXCEPT
        !.weights = [admin |-> 50, supervisor |-> 25, recruiter |-> 25],
        !.supervisor_rating_map =
            [l \in supervisorRatings |->
                CASE l = "Outstanding" -> 0
                  [] l = "Exceeds Expectations" -> 4
                  [] l = "Meets Expectations" -> 8
                  [] l = "Needs Improvement" -> 12
                  [] OTHER -> 30],
        !.recruiter_rules.overdue_training_penalty_per = 1 ]

\* Keys missing: two rating labels, two admin metrics, one tier of each
\* penalty; closed, gapped, overlapping and empty bucket lists; a zero
\* per-training penalty.
RubricSparse ==
    [ weights |-> [admin |-> 40, supervisor |-> 40, recruiter |-> 20],
      supervisor_rating_map |->
          [l \in {"Outstanding", "Meets Expectations", "Unsatisfactory"} |->
              CASE l = "Outstanding" -> 0
                [] l = "Meets Expectations" -> 8
                [] OTHER -> 20],
      supervisor_metrics |-> SupervisorMetrics,
      admin_rules |-> [metrics |->
          [m \in {"isp_goal_errors", "mar_errors", "attendance_ncns"} |->
              CASE m = "isp_goal_errors" ->
                       << [min |-> 1, max |-> 3, deduction |-> 5],
                          [min |-> 3, max |-> 5, deduction |-> 10] >>
                [] m = "mar_errors" ->
                       << [min |-> 2, max |-> 2, deduction |-> 7],
                          [min |-> 6, max |-> 9, deduction |-> 0] >>
                [] OTHER -> << >> ]],
      recruiter_rules |->
          [ overdue_training_penalty_per |-> 0,
            eda_penalty |-> [k \in {"1"} |-> 40],
            retraining_penalty |-> [k \in {"2+"} |-> 10] ] ]

\* Deductions large enough to pass the floor in every category.
RubricHarsh ==
    [ DEFAULT_RUBRIC_V1 EXCEPT
        !.supervisor_rating_map =
            [l \in supervisorRatings |-> IF l = "Outstanding" THEN 0 ELSE 45],
        !.admin_rules.metrics =
            [m \in {AdminMetrics[i] : i \in 1..5} |->
                << [min |-> 1, max |-> 999, deduction |-> 60] >>],
        !.recruiter_rules.overdue_training_penalty_per = 101 ]

\* The shape types every amount as `number`: nothing keeps it non-negative.
RubricNegative ==
    [ DEFAULT_RUBRIC_V1 EXCEPT
        !.supervisor_rating_map =
            [l \in supervisorRatings |-> IF l = "Outstanding" THEN -5 ELSE 8],
        !.admin_rules.metrics =
            [m \in {AdminMetrics[i] : i \in 1..5} |->
                << [min |-> 1, max |-> 2, deduction |-> -5],
                   [min |-> 3, max |-> 999, deduction |-> 10] >>],
        !.recruiter_rules =
            [ overdue_training_penalty_per |-> -15,
              eda_penalty |-> [k \in {"1", "2+"} |-> IF k = "1" THEN -40 ELSE 80],
              retraining_penalty |-> [k \in {"1", "2+"} |-> IF k = "1" THEN 5 ELSE 10] ] ]

RubricDocs ==
    [ n \in {"default", "halves", "sparse", "harsh", "negative"} |->
        CASE n = "default" -> DEFAULT_RUBRIC_V1
          [] n = "halves" -> RubricHalves
          [] n = "sparse" -> RubricSparse
          [] n = "harsh" -> RubricHarsh
          [] OTHER -> RubricNegative ]

(***************************************************************************)
(* rubric.ts: the two lookups                                              *)
(***************************************************************************)

\* Variant: the scan keeps the last matching bucket instead of returning
\* at the first.
LastMatch(count, buckets, i) ==
    LET hits == {j \in i..Len(buckets) :
                    count >= buckets[j].min /\ count <= buckets[j].max}
    IN  IF hits = {} THEN 0 ELSE CHOOSE j \in hits : \A k \in hits : k <= j

RECURSIVE FirstMatch(_, _, _)
\* for (const bucket of buckets) if (count >= min && count <= max) return i
FirstMatch(count, buckets, i) ==
    IF i > Len(buckets) THEN 0
    ELSE IF count >= buckets[i].min /\ count <= buckets[i].max THEN i
    ELSE FirstMatch(count, buckets, i + 1)

\* Variant: above every bucket, the bucket of highest max is used.
findDeductionForCountHighest(count, buckets) ==
    LET hit == FirstMatch(count, buckets, 1)
        top == CHOOSE i \in DOMAIN buckets :
                   \A j \in DOMAIN buckets :
                       buckets[j].max < buckets[i].max
                           \/ (buckets[j].max = buckets[i].max /\ i <= j)
    IN  IF count = 0 THEN 0
        ELSE IF hit # 0 THEN buckets[hit].deduction
        ELSE IF Len(buckets) > 0 /\ count > buckets[top].max
             THEN buckets[top].deduction
        ELSE 0

findDeductionForCount(count, buckets) ==
    IF count = 0 THEN 0
    ELSE LET i == FirstMatch(count, buckets, 1) IN
         IF i # 0 THEN buckets[i].deduction
         ELSE IF Len(buckets) > 0 /\ count > buckets[Len(buckets)].max
              THEN buckets[Len(buckets)].deduction
              ELSE 0

\* Variant: a missing tier key falls back to the other tier.
findTieredPenaltyFallback(count, tiers) ==
    IF count = 0 \/ DOMAIN tiers \cap {"1", "2+"} = {} THEN 0
    ELSE IF count = 1
         THEN (IF "1" \in DOMAIN tiers THEN tiers["1"] ELSE tiers["2+"])
         ELSE (IF "2+" \in DOMAIN tiers THEN tiers["2+"] ELSE tiers["1"])

findTieredPenalty(count, tiers) ==
    IF count = 0 THEN 0
    ELSE IF count = 1 /\ "1" \in DOMAIN tiers THEN tiers["1"]
    ELSE IF count >= 2 /\ "2+" \in DOMAIN tiers THEN tiers["2+"]
    ELSE 0

(***************************************************************************)
(* engine.ts: the category scorers                                         *)
(***************************************************************************)

Deduction(metric, value, points, rule) ==
    [metric |-> metric, value |-> value, deduction_points |-> points, rule_id |-> rule]

RECURSIVE SumPoints(_)
\* The sum of deduction_points over a deductions list.
SumPoints(ds) ==
    IF ds = << >> THEN 0 ELSE ds[1].deduction_points + SumPoints(Tail(ds))

\* Variant: a label missing from the map is charged as the worst rating.
RatingPointsUnknownWorst(rating, rubric) ==
    IF rating \in DOMAIN rubric.supervisor_rating_map
    THEN rubric.supervisor_rating_map[rating]
    ELSE LET points == {rubric.supervisor_rating_map[l] :
                            l \in DOMAIN rubric.supervisor_rating_map}
         IN  CHOOSE x \in points : \A y \in points : y <= x

\* rubric.supervisor_rating_map[rating] ?? 0
RatingPoints(rating, rubric) ==
    IF rating \in DOMAIN rubric.supervisor_rating_map
    THEN rubric.supervisor_rating_map[rating]
    ELSE 0

RECURSIVE SupervisorDeductions(_, _, _)
\* The loop over the five metrics from position i on.
SupervisorDeductions(payload, rubric, i) ==
    IF i > Len(SupervisorMetrics) THEN << >>
    ELSE LET metric == SupervisorMetrics[i]
             rating == payload[metric]
             deductionPoints == RatingPoints(rating, rubric)
             rest == SupervisorDeductions(payload, rubric, i + 1)
         IN  IF deductionPoints > 0
             THEN <<Deduction(metric, rating, deductionPoints,
                              "supervisor_rating_" \o metric)>> \o rest
             ELSE rest

\* Math.max(0, 100 - totalDeduction)
ScoreOf(totalDeduction) == Max(0, 100 - totalDeduction)

\* Variant: totalDeduction += deductionPoints placed after the if.
SupervisorTotalUnguarded(payload, rubric, i) ==
    LET Sum[j \in 1..(Len(SupervisorMetrics) + 1)] ==
            IF j > Len(SupervisorMetrics) THEN 0
            ELSE RatingPoints(payload[SupervisorMetrics[j]], rubric) + Sum[j + 1]
    IN  Sum[i]

RECURSIVE SupervisorTotal(_, _, _)
\* totalDeduction as the same loop accumulates it, from position i on.
SupervisorTotal(payload, rubric, i) ==
    IF i > Len(SupervisorMetrics) THEN 0
    ELSE LET deductionPoints == RatingPoints(payload[SupervisorMetrics[i]], rubric)
             rest == SupervisorTotal(payload, rubric, i + 1)
         IN  IF deductionPoints > 0 THEN deductionPoints + rest ELSE rest

calculateSupervisorScore(payload, rubric) ==
    [ score |-> ScoreOf(SupervisorTotal(payload, rubric, 1)),
      deductions |-> SupervisorDeductions(payload, rubric, 1) ]

RECURSIVE AdminDeductionsNewestFirst(_, _, _)
\* Variant: deductions.unshift(...) in place of deductions.push(...).
AdminDeductionsNewestFirst(payload, rubric, i) ==
    IF i > Len(AdminMetrics) THEN << >>
    ELSE LET metric == AdminMetrics[i]
             count == payload[metric]
             rest == AdminDeductionsNewestFirst(payload, rubric, i + 1)
         IN  IF metric \notin DOMAIN rubric.admin_rules.metrics THEN rest
             ELSE LET deductionPoints ==
                          findDeductionForCount(count, rubric.admin_rules.metrics[metric])
                  IN  IF deductionPoints > 0
                      THEN rest \o <<Deduction(metric, count, deductionPoints,
                                               "admin_" \o metric \o "_bucket")>>
                      ELSE rest

RECURSIVE AdminDeductions(_, _, _)
\* The loop over Object.entries(metricMap), in insertion order, from i on.
AdminDeductions(payload, rubric, i) ==
    IF i > Len(AdminMetrics) THEN << >>
    ELSE LET metric == AdminMetrics[i]
             count == payload[metric]
             rest == AdminDeductions(payload, rubric, i + 1)
         IN  IF metric \notin DOMAIN rubric.admin_rules.metrics THEN rest
             ELSE LET deductionPoints ==
                          findDeductionForCount(count, rubric.admin_rules.metrics[metric])
                  IN  IF deductionPoints > 0
                      THEN <<Deduction(metric, count, deductionPoints,
                                       "admin_" \o metric \o "_bucket")>> \o rest
                      ELSE rest

RECURSIVE AdminTotal(_, _, _)
\* totalDeduction as the same loop accumulates it, from position i on.
AdminTotal(payload, rubric, i) ==
    IF i > Len(AdminMetrics) THEN 0
    ELSE LET metric == AdminMetrics[i]
             rest == AdminTotal(payload, rubric, i + 1)
         IN  IF metric \notin DOMAIN rubric.admin_rules.metrics THEN rest
             ELSE LET deductionPoints ==
                          findDeductionForCount(payload[metric],
                                                rubric.admin_rules.metrics[metric])
                  IN  IF deductionPoints > 0 THEN deductionPoints + rest ELSE rest

calculateAdminScore(payload, rubric) ==
    [ score |-> ScoreOf(AdminTotal(payload, rubric, 1)),
      deductions |-> AdminDeductions(payload, rubric, 1) ]

\* Each rule is entered on its count alone; the points are pushed as computed.
RecruiterDeductions(payload, rubric) ==
    LET rules == rubric.recruiter_rules
        overdue ==
            IF payload.overdue_trainings > 0
            THEN <<Deduction("overdue_trainings", payload.overdue_trainings,
                             payload.overdue_trainings * rules.overdue_training_penalty_per,
                             "recruiter_overdue_trainings")>>
            ELSE << >>
        eda ==
            IF payload.edas_past_6_months > 0
            THEN <<Deduction("edas_past_6_months", payload.edas_past_6_months,
                             findTieredPenalty(payload.edas_past_6_months, rules.eda_penalty),
                             "recruiter_eda_penalty")>>
            ELSE << >>
        retraining ==
            IF payload.retrainings > 0
            THEN <<Deduction("retrainings", payload.retrainings,
                             findTieredPenalty(payload.retrainings, rules.retraining_penalty),
                             "recruiter_retraining_penalty")>>
            ELSE << >>
    IN  overdue \o eda \o retraining

\* Variant: the overdue penalty is charged once, whatever the count.
RecruiterTotalFlat(payload, rubric) ==
    LET rules == rubric.recruiter_rules IN
    (IF payload.overdue_trainings > 0 THEN rules.overdue_training_penalty_per ELSE 0)
    + (IF payload.edas_past_6_months > 0
       THEN findTieredPenalty(payload.edas_past_6_months, rules.eda_penalty) ELSE 0)
    + (IF payload.retrainings > 0
       THEN findTieredPenalty(payload.retrainings, rules.retraining_penalty) ELSE 0)

\* totalDeduction as the three rules accumulate it.
RecruiterTotal(payload, rubric) ==
    LET rules == rubric.recruiter_rules IN
    (IF payload.overdue_trainings > 0
     THEN payload.overdue_trainings * rules.overdue_training_penalty_per ELSE 0)
    + (IF payload.edas_past_6_months > 0
       THEN findTieredPenalty(payload.edas_past_6_months, rules.eda_penalty) ELSE 0)
    + (IF payload.retrainings > 0
       THEN findTieredPenalty(payload.retrainings, rules.retraining_penalty) ELSE 0)

calculateRecruiterScore(payload, rubric) ==
    [ score |-> ScoreOf(RecruiterTotal(payload, rubric)),
      deductions |-> RecruiterDeductions(payload, rubric) ]

\* The switch on submission.role in computeScoresForEmployee.
ScoreForRole(role, payload, rubric) ==
    CASE role = "admin" -> calculateAdminScore(payload, rubric)
      [] role = "supervisor" -> calculateSupervisorScore(payload, rubric)
      [] OTHER -> calculateRecruiterScore(payload, rubric)

(***************************************************************************)
(* engine.ts: rubric resolution and the aggregation                        *)
(***************************************************************************)

\* A month "YYYY-MM" is the pair <<year, month>>; the store compares the
\* TEXT values character by character, which for this fixed-width format
\* is the year first and then the month.
MonthLE(a, b) == a[1] < b[1] \/ (a[1] = b[1] /\ a[2] <= b[2])

\* WHERE effective_month <= $1: positions of the matching rows.
Applicable(month, versions) ==
    {i \in 1..Len(versions) : MonthLE(versions[i].effective_month, month)}

\* Variant: ORDER BY effective_month ASC, the oldest applicable row.
EarliestApplicable(month, versions) ==
    LET app == Applicable(month, versions)
        low == {i \in app : \A j \in app :
                    MonthLE(versions[i].effective_month, versions[j].effective_month)}
    IN  CHOOSE i \in low : \A j \in low : i <= j

\* ORDER BY effective_month DESC LIMIT 1.  SQL leaves the order of rows
\* with equal effective_month unspecified; the sequence order of the table
\* stands for the store's order among them, and a publication may place
\* its row anywhere in it.
LatestApplicable(month, versions) ==
    LET app == Applicable(month, versions)
        top == {i \in app : \A j \in app :
                    MonthLE(versions[j].effective_month, versions[i].effective_month)}
    IN  CHOOSE i \in top : \A j \in top : i <= j

getRubricForMonth(month, versions) ==
    IF Applicable(month, versions) = {}
    THEN [version |-> "default", rubric |-> "default"]
    ELSE LET row == versions[LatestApplicable(month, versions)]
         IN  [version |-> row.rubric_version, rubric |-> row.rubric_json]

\* Variant: Math.floor, the fraction dropped.
MathFloor(n) == n \div 100

\* Math.round of n/100 for an integer n of hundredths: floor(x + 0.5).
MathRound(n) == (n + 50) \div 100

WeightedSum(a, s, r, weights) ==
    a * weights.admin + s * weights.supervisor + r * weights.recruiter

\* The row of that role among the rows read (the last one, if the loop
\* met several; the store's uniqueness leaves at most one).
RowOf(rows, role) == CHOOSE row \in rows : row.role = role

\* Variant: a category without a submission keeps the starting 100.
CategoryScoreFrom100(rows, role, rubric) ==
    IF \E row \in rows : row.role = role
    THEN Some(ScoreForRole(role, RowOf(rows, role).payload_json, rubric).score)
    ELSE Some(100)

CategoryScore(rows, role, rubric) ==
    IF \E row \in rows : row.role = role
    THEN Some(ScoreForRole(role, RowOf(rows, role).payload_json, rubric).score)
    ELSE NULL

CategoryDeductions(rows, role, rubric) ==
    IF \E row \in rows : row.role = role
    THEN ScoreForRole(role, RowOf(rows, role).payload_json, rubric).deductions
    ELSE << >>

\* Variant: no null check; in the arithmetic a null counts as 0.
FinalScoreNullAsZero(adminScore, supervisorScore, recruiterScore, rubric) ==
    LET n(x) == IF x = NULL THEN 0 ELSE Val(x)
    IN  Some(MathRound(WeightedSum(n(adminScore), n(supervisorScore),
                                   n(recruiterScore), rubric.weights)))

FinalScore(adminScore, supervisorScore, recruiterScore, rubric) ==
    IF adminScore # NULL /\ supervisorScore # NULL /\ recruiterScore # NULL
    THEN Some(MathRound(WeightedSum(Val(adminScore), Val(supervisorScore),
                                    Val(recruiterScore), rubric.weights)))
    ELSE NULL

\* Lines 226-268 and the value returned at 286-293.
ComputedScore(rows, rubricVersion, rubric) ==
    LET adminScore == CategoryScore(rows, "admin", rubric)
        supervisorScore == CategoryScore(rows, "supervisor", rubric)
        recruiterScore == CategoryScore(rows, "recruiter", rubric)
    IN  [ adminScore |-> adminScore,
          supervisorScore |-> supervisorScore,
          recruiterScore |-> recruiterScore,
          finalScore |-> FinalScore(adminScore, supervisorScore, recruiterScore, rubric),
          deductions |-> [r \in Roles |-> CategoryDeductions(rows, r, rubric)],
          rubricVersion |-> rubricVersion ]

\* JSON.stringify(deductions): keys in insertion order, no white space;
\* a supervisor value is a string, an admin or recruiter value a number.
JsonDeduction(d, quoted) ==
    "{\"metric\":\"" \o d.metric \o "\",\"value\":"
      \o (IF quoted THEN "\"" \o d.value \o "\"" ELSE ToString(d.value))
      \o ",\"deduction_points\":" \o ToString(d.deduction_points)
      \o ",\"rule_id\":\"" \o d.rule_id \o "\"}"

RECURSIVE JsonList(_, _)
JsonList(ds, quoted) ==
    IF ds = << >> THEN ""
    ELSE JsonDeduction(ds[1], quoted)
           \o (IF Len(ds) > 1 THEN "," ELSE "") \o JsonList(Tail(ds), quoted)

JSONStringify(deductions) ==
    "{\"admin\":[" \o JsonList(deductions["admin"], FALSE)
      \o "],\"supervisor\":[" \o JsonList(deductions["supervisor"], TRUE)
      \o "],\"recruiter\":[" \o JsonList(deductions["recruiter"], FALSE) \o "]}"

(***************************************************************************)
(* The store and the requests in flight                                    *)
(***************************************************************************)

VARIABLES
    roster_monthly,          \* (month, employee_id) -> [area, is_active]
    supervisor_assignments,  \* (month, employee_id) -> [evaluator_email, status]
    submissions_raw,         \* set of committed rows, each with its own id
    scores_computed,         \* (month, employee_id) -> row
    rubric_versions,         \* sequence of rows, in the store's order
    clock,                   \* NOW()
    pc,                      \* where each request stands
    req,                     \* each request's input
    loc,                     \* each request's local variables and response
    call,                    \* ScorerSpec: the scorer call made
    ret,                     \* ScorerSpec: what it returned
    lookup,                  \* ResolverSpec: the last getRubricForMonth call
    magic_link_tokens        \* set of rows [id, email, token, expires_at, used_at]

vars ==
    << roster_monthly, supervisor_assignments, submissions_raw, scores_computed,
       rubric_versions, clock, pc, req, loc, call, ret, lookup, magic_link_tokens >>

storeVars ==
    << roster_monthly, supervisor_assignments, submissions_raw, scores_computed,
       rubric_versions, clock >>

requestVars == << pc, req, loc >>

scorerVars == << call, ret >>

\* Requests and direct calls in a run, each served by its own worker.
NumProcs == 3

\* Rows of rubric_versions in ResolverSpec, the seed of the schema included.
MaxVersions == 4

Procs == 1..NumProcs

TargetMonth == <<2025, 3>>

\* toLowerCase on the e-mail addresses in use.
ToLowerCase(email) ==
    CASE email = "HM1@gmail.com" -> "hm1@gmail.com"
      [] email = "HM2@gmail.com" -> "hm2@gmail.com"
      [] OTHER -> email

\* hasRole(session, role) with no area given
hasRole(session, role) == \E r \in session.roles : r.role = role

hasAnyRole(session, roles) == \E role \in roles : hasRole(session, role)

canSubmitSupervisor(session) ==
    hasAnyRole(session, {"super_admin", "director", "admin", "house_manager"})

canManageAssignments(session) ==
    hasAnyRole(session, {"super_admin", "exec", "director", "admin"})

canUploadRoster(session) ==
    hasAnyRole(session, {"super_admin", "exec", "director", "admin"})

\* GLOBAL_ROLES, or any role held for the area 'global'
hasGlobalAccess(session) ==
    \/ \E r \in session.roles : r.role \in {"super_admin", "exec"}
    \/ \E r \in session.roles : r.area = "global"

canAccessArea(session, area) ==
    hasGlobalAccess(session) \/ \E r \in session.roles : r.area = area

SupervisorPayload(l1, l2) ==
    [ attitude |-> l1, reliability |-> l1, proactivity |-> l1,
      flexibility |-> l2, individual_interaction |-> l2 ]

AdminPayload(a, b, c) ==
    [ isp_goal_errors |-> a, isp_behavior_errors |-> b, mar_errors |-> c,
      attendance_tardies_callouts |-> 0, attendance_ncns |-> 0 ]

RecruiterPayload(o, e, r) ==
    [ overdue_trainings |-> o, edas_past_6_months |-> e, retrainings |-> r ]

\* The supervisor submissions tried: the assigned evaluator (its address
\* typed in another case), another house manager, and a user holding no
\* role.  The ratings score 85 under the default rubric.
SupervisorRequests ==
    LET r(session, employeeId, ratings) ==
            [ kind |-> "supervisor", session |-> session, month |-> TargetMonth,
              employeeId |-> employeeId, payload |-> ratings ]
        hm(email) == [email |-> email,
                      roles |-> {[role |-> "house_manager", area |-> "South Valley"]}]
        exceeds == SupervisorPayload("Exceeds Expectations", "Exceeds Expectations")
    IN  { r(hm("HM1@gmail.com"), "E100", exceeds),
          r(hm("hm2@gmail.com"), "E100", exceeds),
          r([email |-> "staff@gmail.com", roles |-> {}], "E100", exceeds) }

\* The admin and recruiter submissions tried; they score 90 and 70 under
\* the default rubric.
OtherRequests ==
    LET r(role, employeeId, payload) ==
            [ kind |-> role, session |-> [email |-> role \o "@nes.org", roles |-> {}],
              month |-> TargetMonth, employeeId |-> employeeId, payload |-> payload ]
    IN  { r("admin", "E100", AdminPayload(1, 0, 2)),
          r("recruiter", "E100", RecruiterPayload(2, 0, 0)) }

\* A direct call computeScoresForEmployee(month, employeeId, area), as made
\* to repair a computed row.
RecomputeCalls ==
    { [ kind |-> "recompute", month |-> TargetMonth, employeeId |-> "E100",
        area |-> "South Valley" ] }

\* What a publisher may add while requests for 2025-03 are served, and what
\* it may add in ResolverSpec: there also a later version and one effective
\* in the same month as the seed.
LivePublishable ==
    { [rubric_version |-> "2025.02", effective_month |-> <<2025, 2>>, rubric_json |-> "halves"] }

Publishable ==
    { [rubric_version |-> "2025.02", effective_month |-> <<2025, 2>>, rubric_json |-> "halves"],
      [rubric_version |-> "2025.06", effective_month |-> <<2025, 6>>, rubric_json |-> "harsh"],
      [rubric_version |-> "2025.01b", effective_month |-> <<2025, 1>>, rubric_json |-> "sparse"] }

\* client.ts 253-312: the version the schema seeds.
SeedVersion ==
    [rubric_version |-> "2025.01", effective_month |-> <<2025, 1>>, rubric_json |-> "default"]

NoReq == [kind |-> "none"]

NoLoc ==
    [ area |-> "", pending |-> {}, updates |-> {}, seen |-> << >>, rubric |-> NULL,
      rows |-> {}, assigned |-> << >>, result |-> NULL, stored |-> NULL,
      failedAt |-> "", status |-> 0, queries |-> 0, upserts |-> 0 ]

Key(r) == <<r.month, r.employeeId>>

\* State of the store after the schema is created, one roster upload for
\* the month (E100 in South Valley; E200 not on the roster) and one
\* assignment of E100 to hm1@gmail.com.
InitStore ==
    /\ roster_monthly =
           [k \in {<<TargetMonth, "E100">>} |-> [area |-> "South Valley", is_active |-> TRUE]]
    /\ supervisor_assignments =
           [k \in {<<TargetMonth, "E100">>} |->
               [evaluator_email |-> "hm1@gmail.com", status |-> "assigned",
                assigned_by_email |-> "admin@nes.org"]]
    /\ submissions_raw = {}
    /\ scores_computed = << >>
    /\ rubric_versions = <<SeedVersion>>
    /\ clock = 0

Init ==
    /\ InitStore
    /\ pc = [p \in Procs |-> "idle"]
    /\ req = [p \in Procs |-> NoReq]
    /\ loc = [p \in Procs |-> NoLoc]
    /\ call = NoReq
    /\ ret = NULL
    /\ lookup = NULL
    /\ magic_link_tokens = {}

\* Workers are interchangeable: they take their requests in order.
Free(p) == pc[p] = "idle" /\ (IF p = 1 THEN TRUE ELSE pc[p - 1] # "idle")

\* The request ends with an HTTP status; an open transaction is rolled back.
Respond(p, status) ==
    /\ pc' = [pc EXCEPT ![p] = "done"]
    /\ loc' = [loc EXCEPT ![p].status = status, ![p].pending = {},
                          ![p].assigned = << >>]

\* Variant: the failed query is caught and issued again.
ThrowAndRetry(p, at) ==
    /\ pc' = pc
    /\ loc' = [loc EXCEPT ![p].failedAt = at, ![p].queries = @ + 1]

\* A store error inside the engine propagates to the route's catch:
\* NextResponse.json({ error: error.message }, { status: 400 }).
Throw(p, at) ==
    /\ pc' = [pc EXCEPT ![p] = "done"]
    /\ loc' = [loc EXCEPT ![p].status = 400, ![p].failedAt = at,
                          ![p].queries = @ + 1]

(***************************************************************************)
(* POST /api/submissions/supervisor                                        *)
(***************************************************************************)

\* route.ts 43-50: the session, the role gate, the parsed body.
POSTFrom(p, requests) ==
    /\ Free(p)
    /\ \E r \in requests :
          /\ req' = [req EXCEPT ![p] = r]
          /\ IF canSubmitSupervisor(r.session)
             THEN /\ pc' = [pc EXCEPT ![p] = "tx_roster"]
                  /\ loc' = loc
             ELSE Respond(p, 403)
    /\ UNCHANGED << storeVars, scorerVars, lookup, magic_link_tokens >>

POST(p) == POSTFrom(p, SupervisorRequests)

\* route.ts 52-63: BEGIN, then the roster row; a throw rolls back and is
\* answered 400.
TxRoster(p) ==
    /\ pc[p] = "tx_roster"
    /\ LET k == Key(req[p]) IN
       IF k \in DOMAIN roster_monthly /\ roster_monthly[k].is_active
       THEN /\ loc' = [loc EXCEPT ![p].area = roster_monthly[k].area]
            /\ pc' = [pc EXCEPT ![p] = "tx_assign"]
       ELSE Respond(p, 400)
    /\ UNCHANGED << req, storeVars, scorerVars, lookup, magic_link_tokens >>

\* Variant: the evaluator of the assignment is not compared.
AssignmentAllowsAnyone(k, session) ==
    /\ k \in DOMAIN supervisor_assignments
    /\ supervisor_assignments[k].status # "completed"

\* route.ts 65-83: the assignment row and the three checks on it.
AssignmentAllows(k, session) ==
    /\ k \in DOMAIN supervisor_assignments
    /\ ToLowerCase(supervisor_assignments[k].evaluator_email) = ToLowerCase(session.email)
    /\ supervisor_assignments[k].status # "completed"

TxAssign(p) ==
    /\ pc[p] = "tx_assign"
    /\ IF AssignmentAllows(Key(req[p]), req[p].session)
       THEN pc' = [pc EXCEPT ![p] = "tx_insert"] /\ loc' = loc
       ELSE Respond(p, 400)
    /\ UNCHANGED << req, storeVars, scorerVars, lookup, magic_link_tokens >>

\* id UUID PRIMARY KEY DEFAULT gen_random_uuid(): the number of the worker
\* stands for the fresh value.
\* UNIQUE (month, employee_id, role)
SameUniqueKey(a, b) ==
    a.month = b.month /\ a.employee_id = b.employee_id /\ a.role = b.role

\* Variant: the table without its UNIQUE constraint.
NoUniqueViolation(row, table) == FALSE

UniqueViolation(row, table) == \E other \in table : SameUniqueKey(row, other)

\* An INSERT waits while another open transaction holds an uncommitted row
\* with the same unique key.
InsertBlocked(p, row) ==
    \E q \in Procs \ {p} : \E other \in loc[q].pending : SameUniqueKey(row, other)

SubmissionRow(p, role, area) ==
    [ id |-> p, month |-> req[p].month, employee_id |-> req[p].employeeId,
      area |-> area, role |-> role,
      submitted_by_email |-> req[p].session.email,
      payload_json |-> req[p].payload ]

\* route.ts 94-105 and 130-136: the INSERT, where a unique violation is
\* thrown, rolled back and answered 409, and after it the UPDATE ... SET
\* status = 'completed'; both stay uncommitted.
TxInsert(p) ==
    /\ pc[p] = "tx_insert"
    /\ LET row == SubmissionRow(p, "supervisor", loc[p].area) IN
       /\ ~InsertBlocked(p, row)
       /\ IF UniqueViolation(row, submissions_raw)
          THEN Respond(p, 409)
          ELSE /\ loc' = [loc EXCEPT
                             ![p].pending = {row},
                             ![p].updates = {Key(req[p])} \cap DOMAIN supervisor_assignments]
               /\ pc' = [pc EXCEPT ![p] = "tx_commit"]
    /\ UNCHANGED << req, storeVars, scorerVars, lookup, magic_link_tokens >>

\* client.ts 83-85: COMMIT makes the row and the status visible together.
TxCommit(p) ==
    /\ pc[p] = "tx_commit"
    /\ submissions_raw' = submissions_raw \cup loc[p].pending
    /\ supervisor_assignments' =
           [k \in DOMAIN supervisor_assignments |->
               IF k \in loc[p].updates
               THEN [supervisor_assignments[k] EXCEPT !.status = "completed"]
               ELSE supervisor_assignments[k]]
    /\ loc' = [loc EXCEPT ![p].pending = {}, ![p].updates = {}]
    /\ pc' = [pc EXCEPT ![p] = "rubric"]
    /\ UNCHANGED << req, roster_monthly, scores_computed, rubric_versions,
                    clock, scorerVars, lookup, magic_link_tokens >>

(***************************************************************************)
(* The admin and recruiter submissions: the roster check, the insert that  *)
(* fails on a duplicate, then the recompute.                               *)
(***************************************************************************)

SubmitOther(p) ==
    /\ Free(p)
    /\ \E r \in OtherRequests :
          /\ req' = [req EXCEPT ![p] = r]
          /\ LET k == Key(r)
                 row == [ id |-> p, month |-> r.month, employee_id |-> r.employeeId,
                          area |-> roster_monthly[k].area, role |-> r.kind,
                          submitted_by_email |-> r.session.email,
                          payload_json |-> r.payload ]
             IN  IF k \notin DOMAIN roster_monthly
                 THEN Respond(p, 400) /\ UNCHANGED submissions_raw
                 ELSE /\ ~InsertBlocked(p, row)
                      /\ IF UniqueViolation(row, submissions_raw)
                         THEN Respond(p, 409) /\ UNCHANGED submissions_raw
                         ELSE /\ submissions_raw' = submissions_raw \cup {row}
                              /\ loc' = [loc EXCEPT ![p].area = row.area]
                              /\ pc' = [pc EXCEPT ![p] = "rubric"]
    /\ UNCHANGED << roster_monthly, supervisor_assignments, scores_computed,
                    rubric_versions, clock, scorerVars, lookup, magic_link_tokens >>

(***************************************************************************)
(* computeScoresForEmployee(month, employeeId, area), query by query       *)
(***************************************************************************)

\* engine.ts 212-216: the function called on its own.
Recompute(p) ==
    /\ Free(p)
    /\ \E c \in RecomputeCalls :
          /\ req' = [req EXCEPT ![p] = c]
          /\ loc' = [loc EXCEPT ![p].area = c.area]
    /\ pc' = [pc EXCEPT ![p] = "rubric"]
    /\ UNCHANGED << storeVars, scorerVars, lookup, magic_link_tokens >>

\* engine.ts 218: the rubric query.
EngineRubric(p) ==
    /\ pc[p] = "rubric"
    /\ loc' = [loc EXCEPT ![p].rubric = Some(getRubricForMonth(req[p].month, rubric_versions)),
                          ![p].seen = rubric_versions,
                          ![p].queries = @ + 1]
    /\ pc' = [pc EXCEPT ![p] = "subs"]
    /\ UNCHANGED << req, storeVars, scorerVars, lookup, magic_link_tokens >>

\* SELECT role, payload_json FROM submissions_raw WHERE month = $1 AND employee_id = $2
SubmissionsOf(month, employeeId) ==
    { [role |-> row.role, payload_json |-> row.payload_json] :
        row \in {r \in submissions_raw : r.month = month /\ r.employee_id = employeeId} }

\* engine.ts 221-224: the submissions query.
EngineSubs(p) ==
    /\ pc[p] = "subs"
    /\ loc' = [loc EXCEPT ![p].rows = SubmissionsOf(req[p].month, req[p].employeeId),
                          ![p].queries = @ + 1]
    /\ pc' = [pc EXCEPT ![p] = "upsert"]
    /\ UNCHANGED << req, storeVars, scorerVars, lookup, magic_link_tokens >>

\* The row of the INSERT ... VALUES ($1, ..., $9, NOW()).
ScoreRow(area, result, now) ==
    [ area |-> area,
      rubric_version |-> result.rubricVersion,
      admin_score |-> result.adminScore,
      supervisor_score |-> result.supervisorScore,
      recruiter_score |-> result.recruiterScore,
      final_score |-> result.finalScore,
      deductions_json |-> JSONStringify(result.deductions),
      computed_at |-> now ]

\* Variant: deductions_json = scores_computed.deductions_json || EXCLUDED.deductions_json
UpsertAppending(table, k, row) ==
    [ x \in DOMAIN table \cup {k} |->
        IF x # k THEN table[x]
        ELSE IF k \in DOMAIN table
             THEN [row EXCEPT !.area = table[k].area,
                              !.deductions_json = table[k].deductions_json \o @]
        ELSE row ]

\* ON CONFLICT (month, employee_id) DO UPDATE SET ...: every column of the
\* SET list is taken from the new row, the others (area) are kept.
Upsert(table, k, row) ==
    [ x \in DOMAIN table \cup {k} |->
        IF x # k THEN table[x]
        ELSE IF k \in DOMAIN table THEN [row EXCEPT !.area = table[k].area]
        ELSE row ]

\* engine.ts 226-293: the scores, the upsert and the value returned; the
\* route then answers 200.
EngineUpsert(p) ==
    /\ pc[p] = "upsert"
    /\ LET rubric == Val(loc[p].rubric)
           result == ComputedScore(loc[p].rows, rubric.version, RubricDocs[rubric.rubric])
       IN  /\ scores_computed' =
                  Upsert(scores_computed, Key(req[p]), ScoreRow(loc[p].area, result, clock + 1))
           /\ loc' = [loc EXCEPT ![p].result = Some(result), ![p].status = 200,
                                 ![p].stored = Some(scores_computed'[Key(req[p])]),
                                 ![p].queries = @ + 1, ![p].upserts = @ + 1]
    /\ clock' = clock + 1
    /\ pc' = [pc EXCEPT ![p] = "done"]
    /\ UNCHANGED << req, roster_monthly, supervisor_assignments, submissions_raw,
                    rubric_versions, scorerVars, lookup, magic_link_tokens >>

\* Any of the three queries may fail (store unavailable): the await throws,
\* nothing after it runs.
EngineFail(p) ==
    /\ pc[p] \in {"rubric", "subs", "upsert"}
    /\ Throw(p, pc[p])
    /\ UNCHANGED << req, storeVars, scorerVars, lookup, magic_link_tokens >>

(***************************************************************************)
(* Publication of a rubric version (outside the application): a row added  *)
(* to rubric_versions, whose primary key is rubric_version.                *)
(***************************************************************************)

InsertAt(seq, i, row) == SubSeq(seq, 1, i - 1) \o <<row>> \o SubSeq(seq, i, Len(seq))

\* The table is kept in ascending effective_month; only the place of a row
\* among those of its own effective_month is open.
PlaceAllowed(seq, i, row) ==
    /\ \A j \in 1..(i - 1) : MonthLE(seq[j].effective_month, row.effective_month)
    /\ \A j \in i..Len(seq) : MonthLE(row.effective_month, seq[j].effective_month)

Publish(rows, limit) ==
    /\ Len(rubric_versions) < limit
    /\ \E v \in rows, i \in 1..(Len(rubric_versions) + 1) :
          /\ \A j \in 1..Len(rubric_versions) :
                 rubric_versions[j].rubric_version # v.rubric_version
          /\ PlaceAllowed(rubric_versions, i, v)
          /\ rubric_versions' = InsertAt(rubric_versions, i, v)
    /\ UNCHANGED << roster_monthly, supervisor_assignments, submissions_raw,
                    scores_computed, clock, requestVars, scorerVars, lookup, magic_link_tokens >>

(***************************************************************************)
(* Spec: submission requests served concurrently                           *)
(***************************************************************************)

Step(p) ==
    \/ POST(p)
    \/ TxRoster(p)
    \/ TxAssign(p)
    \/ TxInsert(p)
    \/ TxCommit(p)
    \/ SubmitOther(p)
    \/ EngineRubric(p)
    \/ EngineSubs(p)
    \/ EngineUpsert(p)
    \/ EngineFail(p)

Next == \E p \in Procs : Step(p)

Spec == Init /\ [][Next]_vars

(***************************************************************************)
(* SerialSpec: one request or direct recompute call at a time, with rubric *)
(* versions published in between and during them.                          *)
(***************************************************************************)

InFlight(p) == pc[p] \notin {"idle", "done"}

Alone(p) == \A q \in Procs \ {p} : ~InFlight(q)

SerialNext ==
    \/ \E p \in Procs : Alone(p) /\ POST(p)
    \/ \E p \in Procs : Alone(p) /\ TxRoster(p)
    \/ \E p \in Procs : Alone(p) /\ TxAssign(p)
    \/ \E p \in Procs : Alone(p) /\ TxInsert(p)
    \/ \E p \in Procs : Alone(p) /\ TxCommit(p)
    \/ \E p \in Procs : Alone(p) /\ SubmitOther(p)
    \/ \E p \in Procs : Alone(p) /\ Recompute(p)
    \/ \E p \in Procs : Alone(p) /\ EngineRubric(p)
    \/ \E p \in Procs : Alone(p) /\ EngineSubs(p)
    \/ \E p \in Procs : Alone(p) /\ EngineUpsert(p)
    \/ \E p \in Procs : Alone(p) /\ EngineFail(p)
    \/ Publish(LivePublishable, MaxVersions)

SerialSpec == Init /\ [][SerialNext]_vars

(***************************************************************************)
(* ScorerSpec: one call of a category scorer on an enumerated payload and  *)
(* rubric document.                                                        *)
(***************************************************************************)

\* Counts run from 0 to MaxCount, and one beyond every bucket of the default.
MaxCount == 6

Counts == 0..MaxCount \cup {1000}

ScorerCalls ==
    LET c(role, payload, doc) ==
            [kind |-> "score", role |-> role, payload |-> payload, rubric |-> doc]
    IN  { c("supervisor", SupervisorPayload(l1, l2), d) :
              l1 \in supervisorRatings, l2 \in supervisorRatings, d \in DOMAIN RubricDocs }
        \cup { c("admin", [ isp_goal_errors |-> a, isp_behavior_errors |-> b,
                            mar_errors |-> b, attendance_tardies_callouts |-> 0,
                            attendance_ncns |-> a ], d) :
                   a \in Counts, b \in Counts, d \in DOMAIN RubricDocs }
        \cup { c("recruiter", RecruiterPayload(o, e, r), d) :
                   o \in 0..MaxCount, e \in 0..2, r \in 0..2, d \in DOMAIN RubricDocs }

ScorerInit ==
    /\ InitStore
    /\ pc = [p \in Procs |-> "idle"]
    /\ req = [p \in Procs |-> NoReq]
    /\ loc = [p \in Procs |-> NoLoc]
    /\ call \in ScorerCalls
    /\ ret = NULL
    /\ lookup = NULL
    /\ magic_link_tokens = {}

Score ==
    /\ ret = NULL
    /\ ret' = Some(ScoreForRole(call.role, call.payload, RubricDocs[call.rubric]))
    /\ UNCHANGED << storeVars, requestVars, call, lookup, magic_link_tokens >>

ScorerNext == Score

ScorerSpec == ScorerInit /\ [][ScorerNext]_vars

(***************************************************************************)
(* ResolverSpec: rubric versions are published and getRubricForMonth is    *)
(* called, in any order.                                                   *)
(***************************************************************************)

ResolveMonths == { <<2024, 12>>, <<2025, 1>>, <<2025, 3>>, <<2025, 7>> }

\* engine.ts 50-69, called on its own; the table it read is kept with the
\* answer.
Resolve ==
    /\ \E m \in ResolveMonths :
          lookup' = Some([ month |-> m, at |-> rubric_versions,
                           got |-> getRubricForMonth(m, rubric_versions) ])
    /\ UNCHANGED << storeVars, requestVars, scorerVars, magic_link_tokens >>

ResolverNext == Publish(Publishable, MaxVersions) \/ Resolve

ResolverSpec == Init /\ [][ResolverNext]_vars

(***************************************************************************)
(* LookupSpec: one call of findDeductionForCount or findTieredPenalty on   *)
(* an enumerated count and bucket list or tier map.                        *)
(***************************************************************************)

\* Bucket lists of up to MaxBuckets buckets with limits in 1..MaxLimit.
MaxBuckets == 2

MaxLimit == 3

SmallBuckets ==
    { [min |-> lo, max |-> hi, deduction |-> d] :
          lo \in 1..MaxLimit, hi \in 1..MaxLimit, d \in {5, 10} }

BucketLists ==
    UNION { [1..n -> SmallBuckets] : n \in 0..MaxBuckets }
        \cup { DefaultBuckets,
               << [min |-> 6, max |-> 999, deduction |-> 20],
                  [min |-> 1, max |-> 2, deduction |-> 5] >> }

TierMaps ==
    UNION { [keys -> {5, 10}] : keys \in SUBSET {"1", "2+", "3"} }

LookupCalls ==
    { [kind |-> "findDeductionForCount", count |-> c, buckets |-> b] :
          c \in Counts, b \in BucketLists }
        \cup { [kind |-> "findTieredPenalty", count |-> c, tiers |-> t] :
                   c \in Counts, t \in TierMaps }

LookupInit ==
    /\ InitStore
    /\ pc = [p \in Procs |-> "idle"]
    /\ req = [p \in Procs |-> NoReq]
    /\ loc = [p \in Procs |-> NoLoc]
    /\ call \in LookupCalls
    /\ ret = NULL
    /\ lookup = NULL
    /\ magic_link_tokens = {}

LookupBucket ==
    /\ call.kind = "findDeductionForCount"
    /\ ret = NULL
    /\ ret' = Some(findDeductionForCount(call.count, call.buckets))
    /\ UNCHANGED << storeVars, requestVars, call, lookup, magic_link_tokens >>

LookupTier ==
    /\ call.kind = "findTieredPenalty"
    /\ ret = NULL
    /\ ret' = Some(findTieredPenalty(call.count, call.tiers))
    /\ UNCHANGED << storeVars, requestVars, call, lookup, magic_link_tokens >>

LookupNext == LookupBucket \/ LookupTier

LookupSpec == LookupInit /\ [][LookupNext]_vars

(***************************************************************************)
(* AssignSpec: supervisor submissions served together with the admin       *)
(* requests on assignments and roster: PATCH /api/admin/assignments, POST  *)
(* /api/admin/assignments/initialize and POST /api/admin/roster/upload.    *)
(***************************************************************************)

SourceMonth == <<2025, 2>>

Director ==
    [email |-> "director@nes.org", roles |-> {[role |-> "director", area |-> "South Valley"]}]

\* The store after the rosters of February and March are uploaded, the
\* February assignments are made and E100 is assigned for March; E200 and
\* E300 have no March assignment yet, E300 none in February either, and
\* E400 is on no roster.
AssignInitStore ==
    /\ roster_monthly =
           [k \in {<<TargetMonth, "E100">>, <<TargetMonth, "E200">>, <<TargetMonth, "E300">>,
                   <<SourceMonth, "E100">>, <<SourceMonth, "E200">>} |->
               [area |-> "South Valley", is_active |-> TRUE]]
    /\ supervisor_assignments =
           [k \in {<<TargetMonth, "E100">>, <<SourceMonth, "E100">>, <<SourceMonth, "E200">>} |->
               [evaluator_email |-> IF k[1] = TargetMonth THEN "hm1@gmail.com"
                                    ELSE "hm2@gmail.com",
                status |-> IF k[1] = TargetMonth THEN "assigned" ELSE "completed",
                assigned_by_email |-> "admin@nes.org"]]
    /\ submissions_raw = {}
    /\ scores_computed = << >>
    /\ rubric_versions = <<SeedVersion>>
    /\ clock = 0

AssignInit ==
    /\ AssignInitStore
    /\ pc = [p \in Procs |-> "idle"]
    /\ req = [p \in Procs |-> NoReq]
    /\ loc = [p \in Procs |-> NoLoc]
    /\ call = NoReq
    /\ ret = NULL
    /\ lookup = NULL
    /\ magic_link_tokens = {}

\* The supervisor submissions tried here: those of SupervisorRequests, one
\* for an employee whose March assignment only initialize creates, and one
\* for an employee only a roster upload brings in.
AssignSupervisorRequests ==
    LET hm(email) ==
            [email |-> email, roles |-> {[role |-> "house_manager", area |-> "South Valley"]}]
        r(session, employeeId) ==
            [ kind |-> "supervisor", session |-> session, month |-> TargetMonth,
              employeeId |-> employeeId,
              payload |-> SupervisorPayload("Exceeds Expectations", "Meets Expectations") ]
    IN  SupervisorRequests \cup { r(hm("hm2@gmail.com"), "E200"), r(hm("hm1@gmail.com"), "E400") }

\* A pending INSERT into supervisor_assignments, or a row updated by an
\* open transaction, makes a statement on the same key of another wait.
RowLocked(p, k) ==
    \E q \in Procs \ {p} : k \in DOMAIN loc[q].assigned \/ k \in loc[q].updates

(***************************************************************************)
(* POST /api/admin/assignments/initialize                                  *)
(***************************************************************************)

InitializeRequests ==
    { [ kind |-> "initialize", session |-> Director,
        targetMonth |-> TargetMonth, sourceMonth |-> SourceMonth ] }

\* initialize/route.ts 19-28
Initialize(p) ==
    /\ Free(p)
    /\ \E r \in InitializeRequests :
          /\ req' = [req EXCEPT ![p] = r]
          /\ IF canManageAssignments(r.session)
             THEN pc' = [pc EXCEPT ![p] = "init_select"] /\ loc' = loc
             ELSE Respond(p, 403)
    /\ UNCHANGED << storeVars, scorerVars, lookup, magic_link_tokens >>

\* initialize/route.ts 42-61: the active roster rows of the target month
\* with no assignment in it, each with the evaluator of the source month.
UnassignedDsps(targetMonth, sourceMonth, session) ==
    { [ employee_id |-> k[2], area |-> roster_monthly[k].area,
        source_evaluator |->
            IF <<sourceMonth, k[2]>> \in DOMAIN supervisor_assignments
            THEN Some(supervisor_assignments[<<sourceMonth, k[2]>>].evaluator_email)
            ELSE NULL ] :
        k \in { x \in DOMAIN roster_monthly :
                  /\ x[1] = targetMonth
                  /\ roster_monthly[x].is_active
                  /\ x \notin DOMAIN supervisor_assignments
                  /\ (hasGlobalAccess(session)
                        \/ \E r \in session.roles : r.area = roster_monthly[x].area) } }

InitSelect(p) ==
    /\ pc[p] = "init_select"
    /\ loc' = [loc EXCEPT ![p].rows =
                   UnassignedDsps(req[p].targetMonth, req[p].sourceMonth, req[p].session)]
    /\ pc' = [pc EXCEPT ![p] = "init_loop"]
    /\ UNCHANGED << req, storeVars, scorerVars, lookup, magic_link_tokens >>

\* Variant: INSERT ... ON CONFLICT (month, employee_id) DO UPDATE.
NoAssignmentConflict(k, table) == FALSE

\* PRIMARY KEY (month, employee_id) of supervisor_assignments
AssignmentConflict(k, table) == k \in DOMAIN table

\* initialize/route.ts 66-79: one turn of the loop.  The INSERT of a copied
\* assignment stays uncommitted; a key violation is thrown, rolled back and
\* answered 500.
InitCopy(p) ==
    /\ pc[p] = "init_loop"
    /\ \E dsp \in loc[p].rows :
          LET k == <<req[p].targetMonth, dsp.employee_id>>
              row == [ evaluator_email |-> Val(dsp.source_evaluator), status |-> "assigned",
                       assigned_by_email |-> req[p].session.email ]
          IN  IF dsp.source_evaluator = NULL
              THEN /\ loc' = [loc EXCEPT ![p].rows = @ \ {dsp}]
                   /\ pc' = pc
              ELSE /\ ~RowLocked(p, k)
                   /\ IF AssignmentConflict(k, supervisor_assignments)
                      THEN Respond(p, 500)
                      ELSE /\ loc' = [loc EXCEPT ![p].rows = @ \ {dsp},
                                                 ![p].assigned = (k :> row) @@ @]
                           /\ pc' = pc
    /\ UNCHANGED << req, storeVars, scorerVars, lookup, magic_link_tokens >>

\* initialize/route.ts 81-93 and client.ts 83-85: COMMIT, then 200.
InitCommit(p) ==
    /\ pc[p] = "init_loop"
    /\ loc[p].rows = {}
    /\ supervisor_assignments' = loc[p].assigned @@ supervisor_assignments
    /\ loc' = [loc EXCEPT ![p].assigned = << >>, ![p].status = 200]
    /\ pc' = [pc EXCEPT ![p] = "done"]
    /\ UNCHANGED << req, roster_monthly, submissions_raw, scores_computed,
                    rubric_versions, clock, scorerVars, lookup, magic_link_tokens >>

(***************************************************************************)
(* PATCH /api/admin/assignments, one assignment in the body                *)
(***************************************************************************)

PatchRequests ==
    { [ kind |-> "patch", session |-> Director, month |-> TargetMonth,
        employeeId |-> "E100", evaluatorEmail |-> e ] :
          e \in {Some("HM2@gmail.com"), NULL} }

\* INSERT ... ON CONFLICT (month, employee_id) DO UPDATE SET evaluator_email,
\* assigned_by_email, assigned_at: the status of an existing row is kept.
UpsertAssignment(table, k, evaluator, by) ==
    IF k \in DOMAIN table
    THEN [table EXCEPT ![k].evaluator_email = evaluator, ![k].assigned_by_email = by]
    ELSE (k :> [evaluator_email |-> evaluator, status |-> "assigned",
                assigned_by_email |-> by]) @@ table

\* DELETE FROM supervisor_assignments WHERE month = $1 AND employee_id = $2
DeleteAssignment(table, k) == [x \in DOMAIN table \ {k} |-> table[x]]

\* assignments/route.ts 138-202: the transaction holds one statement on
\* supervisor_assignments, so it takes effect at once.
PATCH(p) ==
    /\ Free(p)
    /\ \E r \in PatchRequests :
          /\ req' = [req EXCEPT ![p] = r]
          /\ LET k == Key(r) IN
             IF ~canManageAssignments(r.session)
             THEN Respond(p, 403) /\ UNCHANGED supervisor_assignments
             ELSE IF k \notin DOMAIN roster_monthly
                     \/ ~canAccessArea(r.session, roster_monthly[k].area)
             THEN Respond(p, 200) /\ UNCHANGED supervisor_assignments
             ELSE /\ ~RowLocked(p, k)
                  /\ supervisor_assignments' =
                         IF r.evaluatorEmail # NULL
                         THEN UpsertAssignment(supervisor_assignments, k,
                                               ToLowerCase(Val(r.evaluatorEmail)),
                                               r.session.email)
                         ELSE DeleteAssignment(supervisor_assignments, k)
                  /\ Respond(p, 200)
    /\ UNCHANGED << roster_monthly, submissions_raw, scores_computed,
                    rubric_versions, clock, scorerVars, lookup, magic_link_tokens >>

(***************************************************************************)
(* POST /api/admin/roster/upload, the parsed rows of the file              *)
(***************************************************************************)

UploadRequests ==
    { [ kind |-> "upload", session |-> Director, month |-> TargetMonth,
        rows |-> {[employeeId |-> "E400", area |-> "South Valley"]} ] }

\* Variant: the month's roster is replaced by the file (rows absent from it
\* are deleted).
RosterReplaced(table, month, rows) ==
    [ k \in {x \in DOMAIN table : x[1] # month} \cup {<<month, r.employeeId>> : r \in rows} |->
        IF k[1] = month
        THEN [area |-> (CHOOSE r \in rows : r.employeeId = k[2]).area, is_active |-> TRUE]
        ELSE table[k] ]

\* upload/route.ts 202-217: INSERT ... ON CONFLICT (month, employee_id) DO
\* UPDATE SET ..., area = EXCLUDED.area, is_active = true, row by row.
RosterUpserted(table, month, rows) ==
    [ k \in DOMAIN table \cup {<<month, r.employeeId>> : r \in rows} |->
        IF k[1] = month /\ \E r \in rows : r.employeeId = k[2]
        THEN [area |-> (CHOOSE r \in rows : r.employeeId = k[2]).area, is_active |-> TRUE]
        ELSE table[k] ]

\* FOREIGN KEY (month, employee_id) REFERENCES roster_monthly ON DELETE CASCADE
Cascade(rows, roster) == {r \in rows : <<r.month, r.employee_id>> \in DOMAIN roster}

\* upload/route.ts 151-251
RosterUploadFrom(p, requests) ==
    /\ Free(p)
    /\ \E r \in requests :
          /\ req' = [req EXCEPT ![p] = r]
          /\ IF ~canUploadRoster(r.session)
                \/ \E row \in r.rows : ~canAccessArea(r.session, row.area)
             THEN /\ Respond(p, 403)
                  /\ UNCHANGED << roster_monthly, supervisor_assignments, submissions_raw >>
             ELSE /\ roster_monthly' = RosterUpserted(roster_monthly, r.month, r.rows)
                  /\ supervisor_assignments' =
                         [k \in DOMAIN supervisor_assignments \cap DOMAIN roster_monthly' |->
                             supervisor_assignments[k]]
                  /\ submissions_raw' = Cascade(submissions_raw, roster_monthly')
                  /\ Respond(p, 200)
    /\ UNCHANGED << scores_computed, rubric_versions, clock, scorerVars, lookup, magic_link_tokens >>

RosterUpload(p) == RosterUploadFrom(p, UploadRequests)

AssignNext ==
    \/ \E p \in Procs : POSTFrom(p, AssignSupervisorRequests)
    \/ \E p \in Procs : TxRoster(p)
    \/ \E p \in Procs : TxAssign(p)
    \/ \E p \in Procs : TxInsert(p)
    \/ \E p \in Procs : TxCommit(p)
    \/ \E p \in Procs : Recompute(p)
    \/ \E p \in Procs : EngineRubric(p)
    \/ \E p \in Procs : EngineSubs(p)
    \/ \E p \in Procs : EngineUpsert(p)
    \/ \E p \in Procs : Initialize(p)
    \/ \E p \in Procs : InitSelect(p)
    \/ \E p \in Procs : InitCopy(p)
    \/ \E p \in Procs : InitCommit(p)
    \/ \E p \in Procs : PATCH(p)
    \/ \E p \in Procs : RosterUpload(p)

AssignSpec == AssignInit /\ [][AssignNext]_vars

(***************************************************************************)
(* AggregateSpec: the aggregation of computeScoresForEmployee on one       *)
(* submission per role and a rubric document.                              *)
(***************************************************************************)

AggregateCalls ==
    { [ kind |-> "aggregate", rubric |-> d,
        rows |-> { [role |-> "supervisor", payload_json |-> SupervisorPayload(l, l)],
                   [role |-> "admin", payload_json |-> AdminPayload(a, a, 0)],
                   [role |-> "recruiter", payload_json |-> RecruiterPayload(o, e, 0)] } ] :
          l \in supervisorRatings, a \in Counts, o \in 0..MaxCount, e \in 0..2,
          d \in DOMAIN RubricDocs }

AggregateInit ==
    /\ InitStore
    /\ pc = [p \in Procs |-> "idle"]
    /\ req = [p \in Procs |-> NoReq]
    /\ loc = [p \in Procs |-> NoLoc]
    /\ call \in AggregateCalls
    /\ ret = NULL
    /\ lookup = NULL
    /\ magic_link_tokens = {}

\* engine.ts 226-268
Aggregate ==
    /\ call.kind = "aggregate"
    /\ ret = NULL
    /\ ret' = Some(ComputedScore(call.rows, call.rubric, RubricDocs[call.rubric]))
    /\ UNCHANGED << storeVars, requestVars, call, lookup, magic_link_tokens >>

AggregateNext == Aggregate

AggregateSpec == AggregateInit /\ [][AggregateNext]_vars

(***************************************************************************)
(* RepairSpec: requests and direct recompute calls one at a time, where a  *)
(* recompute may be lost and a roster upload may move the employee to      *)
(* another area in between.                                                *)
(***************************************************************************)

\* A re-upload of the month's roster in which E100 works at Price.
MoveRequests ==
    { [ kind |-> "upload",
        session |-> [email |-> "spencer@nes.org",
                     roles |-> {[role |-> "super_admin", area |-> "global"]}],
        month |-> TargetMonth,
        rows |-> {[employeeId |-> "E100", area |-> "Price"]} ] }

RepairNext ==
    \/ \E p \in Procs : Alone(p) /\ POST(p)
    \/ \E p \in Procs : Alone(p) /\ TxRoster(p)
    \/ \E p \in Procs : Alone(p) /\ TxAssign(p)
    \/ \E p \in Procs : Alone(p) /\ TxInsert(p)
    \/ \E p \in Procs : Alone(p) /\ TxCommit(p)
    \/ \E p \in Procs : Alone(p) /\ SubmitOther(p)
    \/ \E p \in Procs : Alone(p) /\ Recompute(p)
    \/ \E p \in Procs : Alone(p) /\ EngineRubric(p)
    \/ \E p \in Procs : Alone(p) /\ EngineSubs(p)
    \/ \E p \in Procs : Alone(p) /\ EngineUpsert(p)
    \/ \E p \in Procs : Alone(p) /\ EngineFail(p)
    \/ \E p \in Procs : Alone(p) /\ RosterUploadFrom(p, MoveRequests)

RepairSpec == Init /\ [][RepairNext]_vars

(***************************************************************************)
(* AuthSpec: magic links (magic-link.ts).  The clock counts minutes.       *)
(***************************************************************************)

TOKEN_EXPIRY_MINUTES == 15

\* The clock stops here.
MaxMinutes == 16

\* The users table: one active house manager, one deactivated.
users ==
    { [email |-> "hm1@gmail.com", is_active |-> TRUE],
      [email |-> "hm2@gmail.com", is_active |-> FALSE] }

LinkEmails == {"hm1@gmail.com", "HM1@gmail.com", "hm2@gmail.com", "nobody@gmail.com"}

\* SELECT id FROM users WHERE email = $1 AND is_active = true
ActiveUser(email) == \E u \in users : u.email = ToLowerCase(email) /\ u.is_active

FoundMessage == "Check your email for a sign-in link."
FailedMessage == "Failed to send email. Please try again later."
NotFoundMessage ==
    "If an account exists with this email, you will receive a sign-in link shortly."

\* magic-link.ts 38-65: the unused tokens of the email are deleted and a
\* fresh token, named after the worker that drew it, is inserted.
createMagicLinkToken(p, email) ==
    {t \in magic_link_tokens : ~(t.email = ToLowerCase(email) /\ t.used_at = NULL)}
        \cup {[ id |-> p, email |-> ToLowerCase(email), token |-> p,
                expires_at |-> clock + TOKEN_EXPIRY_MINUTES, used_at |-> NULL ]}

\* magic-link.ts 140-162; req.delivers says whether the mail service takes
\* the message.
requestMagicLink(p) ==
    /\ Free(p)
    /\ \E email \in LinkEmails, delivers \in BOOLEAN :
          /\ req' = [req EXCEPT ![p] = [kind |-> "requestMagicLink", email |-> email,
                                        delivers |-> delivers]]
          /\ IF ~ActiveUser(email)
             THEN /\ magic_link_tokens' = magic_link_tokens
                  /\ loc' = [loc EXCEPT ![p].result =
                                Some([success |-> TRUE, message |-> NotFoundMessage])]
             ELSE /\ magic_link_tokens' = createMagicLinkToken(p, email)
                  /\ loc' = [loc EXCEPT ![p].result =
                                Some([success |-> delivers,
                                      message |-> IF delivers THEN FoundMessage
                                                  ELSE FailedMessage])]
    /\ pc' = [pc EXCEPT ![p] = "done"]
    /\ UNCHANGED << storeVars, scorerVars, lookup >>

\* Verifications of the token that had returned the email when a call starts.
Accepted(token) ==
    { q \in Procs : /\ pc[q] = "done" /\ req[q].kind = "verify" /\ req[q].token = token
                    /\ Val(loc[q].result) # NULL }

\* magic-link.ts 73-81: the SELECT ... WHERE token = $1 AND used_at IS NULL
\* AND expires_at > NOW().  Token 0 was never issued.
VerifySelect(p) ==
    /\ Free(p)
    /\ \E token \in {t.token : t \in magic_link_tokens} \cup {0} :
          /\ req' = [req EXCEPT ![p] = [kind |-> "verify", token |-> token, at |-> clock,
                                        after |-> Accepted(token)]]
          /\ LET rows == { t \in magic_link_tokens :
                             /\ t.token = token /\ t.used_at = NULL
                             /\ t.expires_at > clock }
             IN  IF rows = {}
                 THEN /\ loc' = [loc EXCEPT ![p].result = Some(NULL)]
                      /\ pc' = [pc EXCEPT ![p] = "done"]
                 ELSE /\ loc' = [loc EXCEPT ![p].rows = rows]
                      /\ pc' = [pc EXCEPT ![p] = "consume"]
    /\ UNCHANGED << storeVars, scorerVars, lookup, magic_link_tokens >>

\* magic-link.ts 83-88: UPDATE ... SET used_at = NOW() WHERE id = $1, then
\* the email of the row read is returned.
VerifyUpdate(p) ==
    /\ pc[p] = "consume"
    /\ LET row == CHOOSE t \in loc[p].rows : TRUE
       IN  /\ magic_link_tokens' =
                  { IF t.id = row.id THEN [t EXCEPT !.used_at = Some(clock)] ELSE t :
                      t \in magic_link_tokens }
           /\ loc' = [loc EXCEPT ![p].result = Some(Some(row.email))]
    /\ pc' = [pc EXCEPT ![p] = "done"]
    /\ UNCHANGED << req, storeVars, scorerVars, lookup >>

\* Time passes, a minute or a token's whole life at a time.
Tick ==
    /\ \E d \in {1, TOKEN_EXPIRY_MINUTES} :
          /\ clock + d <= MaxMinutes
          /\ clock' = clock + d
    /\ UNCHANGED << roster_monthly, supervisor_assignments, submissions_raw, scores_computed,
                    rubric_versions, requestVars, scorerVars, lookup, magic_link_tokens >>

AuthNext ==
    \/ \E p \in Procs : requestMagicLink(p)
    \/ \E p \in Procs : VerifySelect(p)
    \/ \E p \in Procs : VerifyUpdate(p)
    \/ Tick

AuthSpec == Init /\ [][AuthNext]_vars

(***************************************************************************)
(* DashSpec: GET /api/dashboard, one call over a roster of two areas.      *)
(***************************************************************************)

canViewDashboard(session) ==
    hasAnyRole(session, {"super_admin", "exec", "director", "admin", "recruiter"})

\* authorization.ts 62-75
getUserAreas(session) ==
    IF hasGlobalAccess(session) THEN {"global"}
    ELSE {r.area : r \in {x \in session.roles : x.area # "global"}}

\* authorization.ts 89-108: null for a global user, else the params.
buildAreaFilter(session) ==
    IF hasGlobalAccess(session) THEN NULL ELSE Some(getUserAreas(session))

\* dashboard/route.ts 31-170: the status and the staff rows of the answer.
\* searchParams.get('area') is null when the parameter is absent, which
\* z.string().optional() rejects; an empty IN () list fails in the store.
DashboardGET(session, month, area) ==
    LET areaFilter == buildAreaFilter(session)
        staff == { [ employeeId |-> k[2], area |-> roster_monthly[k].area,
                     final |-> IF k \in DOMAIN scores_computed
                               THEN scores_computed[k].final_score ELSE NULL ] :
                   k \in { x \in DOMAIN roster_monthly :
                             /\ x[1] = month
                             /\ roster_monthly[x].is_active
                             /\ areaFilter # NULL => roster_monthly[x].area \in Val(areaFilter)
                             /\ Val(area) # "" => roster_monthly[x].area = Val(area) } }
    IN  IF ~canViewDashboard(session) THEN [status |-> 403, staff |-> {}]
        ELSE IF area = NULL THEN [status |-> 400, staff |-> {}]
        ELSE IF Val(area) # "" /\ ~canAccessArea(session, Val(area))
             THEN [status |-> 403, staff |-> {}]
        ELSE IF areaFilter # NULL /\ Val(areaFilter) = {}
             THEN [status |-> 500, staff |-> {}]
        ELSE [status |-> 200, staff |-> staff]

\* The rows of user_roles a session may carry: at most two.
RoleRows ==
    { [role |-> r, area |-> a] :
        r \in {"exec", "director", "admin", "recruiter", "house_manager"},
        a \in {"South Valley", "Price", "global"} }

DashSessions ==
    { [email |-> "user@nes.org", roles |-> {r1, r2}] : r1, r2 \in RoleRows }
        \cup { [email |-> "user@nes.org", roles |-> {}] }

DashboardCalls ==
    { [kind |-> "dashboard", session |-> s, month |-> TargetMonth, area |-> a] :
        s \in DashSessions,
        a \in {NULL, Some(""), Some("South Valley"), Some("Price")} }

DashInit ==
    /\ roster_monthly =
           [k \in {<<TargetMonth, "E100">>, <<TargetMonth, "E200">>, <<TargetMonth, "E300">>} |->
               [ area |-> IF k[2] = "E100" THEN "South Valley" ELSE "Price",
                 is_active |-> k[2] # "E300" ]]
    /\ supervisor_assignments = << >>
    /\ submissions_raw = {}
    /\ scores_computed = << >>
    /\ rubric_versions = <<SeedVersion>>
    /\ clock = 0
    /\ pc = [p \in Procs |-> "idle"]
    /\ req = [p \in Procs |-> NoReq]
    /\ loc = [p \in Procs |-> NoLoc]
    /\ call \in DashboardCalls
    /\ ret = NULL
    /\ lookup = NULL
    /\ magic_link_tokens = {}

Dashboard ==
    /\ call.kind = "dashboard" /\ ret = NULL
    /\ ret' = Some(DashboardGET(call.session, call.month, call.area))
    /\ UNCHANGED << storeVars, requestVars, call, lookup, magic_link_tokens >>

DashNext == Dashboard

DashSpec == DashInit /\ [][DashNext]_vars

(***************************************************************************)
(* Properties                                                              *)
(***************************************************************************)

RolesIn(rows) == {row.role : row \in rows}

Rows(table) == {table[i] : i \in DOMAIN table}

Done(p) == pc[p] = "done"

Completed(p) == Done(p) /\ loc[p].status = 200

\* C3: every score a category scorer returns lies between 0 and 100, for
\* every rubric document of the RubricV1 shape and every payload.
C3_ScoreWithinRange ==
    ret # NULL => (Val(ret).score >= 0 /\ Val(ret).score <= 100)

\* C5: getRubricForMonth(month) returns a stored version whose
\* effective_month is the greatest among those not after month, with its
\* label; when no stored version applies it returns DEFAULT_RUBRIC_V1 under
\* the label "default".
C5_LatestApplicableOrDefault ==
    lookup # NULL =>
        LET l == Val(lookup)
            applicable == {row \in Rows(l.at) : MonthLE(row.effective_month, l.month)}
        IN  IF applicable = {}
            THEN l.got.version = "default" /\ RubricDocs[l.got.rubric] = DEFAULT_RUBRIC_V1
            ELSE \E row \in applicable :
                    /\ l.got.version = row.rubric_version
                    /\ l.got.rubric = row.rubric_json
                    /\ \A other \in applicable :
                           MonthLE(other.effective_month, row.effective_month)

\* C5 happens: with the versions of 2025-01, 2025-02 and 2025-06 stored,
\* 2025-03 resolves to the version of 2025-02.
C5_Witness ==
    /\ lookup # NULL
    /\ Val(lookup).month = <<2025, 3>>
    /\ {"2025.01", "2025.02", "2025.06"} \subseteq {row.rubric_version : row \in Rows(Val(lookup).at)}
    /\ Val(lookup).got.version = "2025.02"

\* C6: a publication (a row added, none changed or removed) leaves the
\* version label that getRubricForMonth returns unchanged, for every month.
\* Stated for the publications whose effective_month no stored version has,
\* where the store's order among equal months plays no part.
C6_PastMonthKeepsVersion ==
    [][\A m \in ResolveMonths :
          (\A new \in Rows(rubric_versions') \ Rows(rubric_versions) :
              \A old \in Rows(rubric_versions) : new.effective_month # old.effective_month)
          => getRubricForMonth(m, rubric_versions').version
                 = getRubricForMonth(m, rubric_versions).version]_vars

StoredRoles(k) ==
    {row.role : row \in {x \in submissions_raw : x.month = k[1] /\ x.employee_id = k[2]}}

\* C1: in a sequence of submissions for one (month, employee), each
\* followed by its recompute, every completed recompute returns and stores
\* a null final score while fewer than three roles have a submission, and
\* a non-null one from the recompute that follows the third role's
\* submission on.
C1_FinalNullUntilThirdRole ==
    [][\A p \in Procs :
          (pc[p] = "upsert" /\ pc'[p] = "done" /\ loc'[p].status = 200) =>
              LET k == Key(req[p]) IN
              /\ (scores_computed'[k].final_score # NULL) <=> (StoredRoles(k) = Roles)
              /\ (Val(loc'[p].result).finalScore # NULL) <=> (StoredRoles(k) = Roles)]_vars

\* C1 happens: one recompute returned a null final score and a later one,
\* after the third role's submission, a non-null one that is stored.
C1_Witness ==
    \E p, q \in Procs :
        /\ Completed(p) /\ Completed(q)
        /\ Val(loc[q].result).finalScore = NULL
        /\ Val(loc[p].result).finalScore # NULL
        /\ scores_computed[Key(req[p])].final_score = Val(loc[p].result).finalScore

ScoreOfRole(result, role) ==
    CASE role = "admin" -> result.adminScore
      [] role = "supervisor" -> result.supervisorScore
      [] OTHER -> result.recruiterScore

\* C2: in every result of computeScoresForEmployee, a role's category score
\* is non-null exactly when the submissions read contain one of that role,
\* and a role without a submission has a null score and no deductions.
C2_CategoryPresentIffSubmission ==
    \A p \in Procs : Completed(p) =>
        \A r \in Roles :
            LET result == Val(loc[p].result) IN
            /\ (ScoreOfRole(result, r) # NULL) <=> (r \in RolesIn(loc[p].rows))
            /\ r \notin RolesIn(loc[p].rows) =>
                   (ScoreOfRole(result, r) = NULL /\ result.deductions[r] = << >>)

\* C2 happens: a recompute read submissions of some roles and not of others.
C2_Witness ==
    \E p \in Procs :
        /\ Completed(p)
        /\ RolesIn(loc[p].rows) = {"admin", "recruiter"}
        /\ Val(loc[p].result).supervisorScore = NULL
        /\ Val(loc[p].result).adminScore = {90}

SameInputs(p, q) ==
    /\ Key(req[p]) = Key(req[q])
    /\ loc[p].rows = loc[q].rows
    /\ loc[p].seen = loc[q].seen

Committed(p) == \E row \in submissions_raw : row.id = p

SameAttempt(p, q) ==
    /\ req[p].kind \in Roles
    /\ req[p].kind = req[q].kind
    /\ Key(req[p]) = Key(req[q])

\* An attempt the route's checks on session, roster and evaluator let pass.
Admissible(r) ==
    /\ r.kind \in Roles
    /\ Key(r) \in DOMAIN roster_monthly
    /\ r.kind = "supervisor" =>
           /\ canSubmitSupervisor(r.session)
           /\ Key(r) \in DOMAIN supervisor_assignments
           /\ ToLowerCase(supervisor_assignments[Key(r)].evaluator_email)
                  = ToLowerCase(r.session.email)

RivalStored(p) ==
    \E row \in submissions_raw :
        /\ row.id # p
        /\ row.role = req[p].kind
        /\ <<row.month, row.employee_id>> = Key(req[p])

\* C8: there is at most one submissions_raw row per (month, employee_id,
\* role); of two attempts for the same key at most one commits its row; an
\* attempt answered 409 committed none; and an admissible attempt that
\* ended without committing was rejected while another attempt's row for
\* the key is stored.
C8_OneSubmissionPerKey ==
    /\ \A a, b \in submissions_raw : SameUniqueKey(a, b) => a = b
    /\ \A p, q \in Procs :
           (p # q /\ SameAttempt(p, q)) => ~(Committed(p) /\ Committed(q))
    /\ \A p \in Procs :
           (Done(p) /\ loc[p].status = 409) => (~Committed(p) /\ RivalStored(p))
    /\ \A p \in Procs :
           (Done(p) /\ Admissible(req[p]) /\ ~Committed(p)) =>
               (loc[p].status \in {400, 409} /\ RivalStored(p))

\* C8 happens: two supervisor submissions for one employee were both past
\* the assignment check; one committed, the other was answered 409.
C8_Witness ==
    \E p, q \in Procs :
        /\ p # q /\ SameAttempt(p, q)
        /\ req[p].kind = "supervisor"
        /\ Committed(p)
        /\ Done(q) /\ loc[q].status = 409

\* The stored row is what a recompute reading every stored submission of
\* the key computes.
RowIsCurrent(k) ==
    LET rv == getRubricForMonth(k[1], rubric_versions)
        full == ComputedScore(SubmissionsOf(k[1], k[2]), rv.version, RubricDocs[rv.rubric])
        row == scores_computed[k]
    IN  /\ row.admin_score = full.adminScore
        /\ row.supervisor_score = full.supervisorScore
        /\ row.recruiter_score = full.recruiterScore
        /\ row.final_score = full.finalScore
        /\ row.deductions_json = JSONStringify(full.deductions)

\* C9: once the recomputes that concurrent submissions for one (month,
\* employee) triggered have all completed, the stored scores_computed row
\* equals a recompute over all stored submissions.
C9_ConcurrentRecomputesConverge ==
    (/\ \A p \in Procs : pc[p] \in {"idle", "done"}
     /\ \A p \in Procs : Committed(p) => Completed(p))
    => \A p \in Procs : Committed(p) => RowIsCurrent(Key(req[p]))

\* C10: when the rubric query or the submissions query fails, the call
\* ends with an error in that step, with no result and no upsert issued,
\* scores_computed is as it was, each query was issued once, and the call
\* takes no further step.
C10_QueryFailureWritesNothing ==
    [][\A p \in Procs :
          /\ (loc[p].failedAt = "" /\ loc'[p].failedAt \in {"rubric", "subs"}) =>
                 /\ scores_computed' = scores_computed
                 /\ pc'[p] = "done"
                 /\ loc'[p].status # 200
                 /\ loc'[p].result = NULL
                 /\ loc'[p].upserts = 0
                 /\ loc'[p].queries = (IF loc'[p].failedAt = "rubric" THEN 1 ELSE 2)
          /\ loc[p].failedAt \in {"rubric", "subs"} =>
                 (pc'[p] = pc[p] /\ loc'[p] = loc[p] /\ req'[p] = req[p])]_vars

\* C10 happens: the submissions query of a recompute failed while a row
\* for the key was stored, and the row stayed.
C10_Witness ==
    \E p \in Procs :
        /\ Done(p)
        /\ loc[p].failedAt = "subs"
        /\ Key(req[p]) \in DOMAIN scores_computed
        /\ \E q \in Procs : q # p /\ Completed(q)
                              /\ scores_computed[Key(req[p])] = Val(loc[q].stored)

\* C11: the score a category scorer returns is max(0, 100 - S), S being the
\* sum of deduction_points over the deductions list it returns.
C11_DeductionsExplainScore ==
    ret # NULL =>
        LET S == SumPoints(Val(ret).deductions)
        IN  Val(ret).score = (IF 100 - S > 0 THEN 100 - S ELSE 0)

\* C11 happens: a list of several deductions that sum past 100 was returned
\* with the score 0.
C11_Witness ==
    /\ ret # NULL
    /\ Len(Val(ret).deductions) >= 2
    /\ SumPoints(Val(ret).deductions) > 100
    /\ Val(ret).score = 0

\* C12: the deductions list a category scorer returns has no entry that
\* deducts 0 and at most one entry per metric.  (The claim also asks for an
\* entry wherever the deduction is non-zero; this is the part that needs no
\* reading of the rubric.)
C12_NoZeroEntries ==
    ret # NULL =>
        LET ds == Val(ret).deductions IN
        \A i \in 1..Len(ds) :
            /\ ds[i].deduction_points # 0
            /\ \A j \in 1..Len(ds) : ds[j].metric = ds[i].metric => j = i

BucketCall == call.kind = "findDeductionForCount" /\ ret # NULL

TierCall == call.kind = "findTieredPenalty" /\ ret # NULL

\* C13: findDeductionForCount(count, buckets) is 0 for count 0; otherwise
\* the deduction of the first bucket in list order with min <= count <= max;
\* otherwise, when count is above the max of the last bucket, the last
\* bucket's deduction; otherwise 0.
C13_BucketLookupMatchesReference ==
    BucketCall =>
        LET c == call.count
            b == call.buckets
            hits == {i \in DOMAIN b : b[i].min <= c /\ c <= b[i].max}
        IN  Val(ret) =
                (CASE c = 0 -> 0
                   [] c # 0 /\ hits # {} ->
                          b[CHOOSE i \in hits : \A j \in hits : i <= j].deduction
                   [] c # 0 /\ hits = {} /\ b # << >> /\ c > b[Len(b)].max ->
                          b[Len(b)].deduction
                   [] OTHER -> 0)

\* C13 happens: two buckets of different deductions both hold the count,
\* and the first one's deduction was returned.
C13_Witness ==
    /\ BucketCall
    /\ Len(call.buckets) = 2
    /\ \A i \in 1..2 : call.buckets[i].min <= call.count /\ call.count <= call.buckets[i].max
    /\ call.buckets[1].deduction # call.buckets[2].deduction
    /\ Val(ret) = call.buckets[1].deduction

AboveEveryBucket ==
    /\ BucketCall
    /\ call.buckets # << >>
    /\ \A i \in DOMAIN call.buckets : call.count > call.buckets[i].max

\* C14: for a non-empty bucket list and a count above the highest max of
\* its buckets, findDeductionForCount returns the deduction of the last
\* bucket of the list, which is the bucket of highest max when the list is
\* in ascending order; 20 for the default buckets.
C14_CeilingIsLastBucket ==
    AboveEveryBucket =>
        /\ Val(ret) = call.buckets[Len(call.buckets)].deduction
        /\ call.buckets = DefaultBuckets => Val(ret) = 20

\* C14 happens: a count above every bucket met a list whose last bucket is
\* not the one of highest max, and the last bucket's deduction was returned.
C14_Witness ==
    /\ AboveEveryBucket
    /\ Len(call.buckets) = 2
    /\ call.buckets[1].max > call.buckets[2].max
    /\ call.buckets[1].deduction # call.buckets[2].deduction
    /\ Val(ret) = call.buckets[2].deduction

\* C14 as stated: for a non-empty bucket list and a count above the highest
\* max of its buckets, findDeductionForCount returns the deduction of a
\* bucket with that highest max.
C14_CeilingIsHighestBucket ==
    AboveEveryBucket =>
        /\ \E i \in DOMAIN call.buckets :
              /\ \A j \in DOMAIN call.buckets : call.buckets[j].max <= call.buckets[i].max
              /\ Val(ret) = call.buckets[i].deduction
        /\ call.buckets = DefaultBuckets => Val(ret) = 20

\* C15: findTieredPenalty(count, tiers) is 0 for count 0, tiers["1"] for
\* count 1 when the key "1" is present, tiers["2+"] for count >= 2 when the
\* key "2+" is present, and 0 in every other case.
C15_TieredPenaltyByCase ==
    TierCall =>
        LET c == call.count
            t == call.tiers
        IN  /\ c = 0 => Val(ret) = 0
            /\ (c = 1 /\ "1" \in DOMAIN t) => Val(ret) = t["1"]
            /\ (c >= 2 /\ "2+" \in DOMAIN t) => Val(ret) = t["2+"]
            /\ (c = 1 /\ "1" \notin DOMAIN t) => Val(ret) = 0
            /\ (c >= 2 /\ "2+" \notin DOMAIN t) => Val(ret) = 0

\* C15 happens: a count of 2 or more met a map holding only the key "1",
\* and 0 was returned.
C15_Witness ==
    /\ TierCall
    /\ call.count >= 2
    /\ "1" \in DOMAIN call.tiers /\ "2+" \notin DOMAIN call.tiers
    /\ Val(ret) = 0

RecruiterCall == call.kind = "score" /\ call.role = "recruiter" /\ ret # NULL

\* What each recruiter rule deducts for the payload and rubric of the call:
\* nothing for a count of 0.
RecruiterRuleAmounts ==
    LET rules == RubricDocs[call.rubric].recruiter_rules
        p == call.payload
    IN  [ overdue_trainings |->
              IF p.overdue_trainings > 0
              THEN p.overdue_trainings * rules.overdue_training_penalty_per ELSE 0,
          edas_past_6_months |->
              IF p.edas_past_6_months > 0
              THEN findTieredPenalty(p.edas_past_6_months, rules.eda_penalty) ELSE 0,
          retrainings |->
              IF p.retrainings > 0
              THEN findTieredPenalty(p.retrainings, rules.retraining_penalty) ELSE 0 ]

\* C16: calculateRecruiterScore applies its three rules independently, each
\* only for a count > 0 (count * overdue_training_penalty_per, the tiered
\* eda_penalty, the tiered retraining_penalty), lists one entry per applied
\* rule with that amount, and scores max(0, 100 - total); under the default
\* rubric overdue 2, edas 1, retrainings 0 score 30 with two entries.
C16_RecruiterRules ==
    RecruiterCall =>
        LET amt == RecruiterRuleAmounts
            p == call.payload
            ds == Val(ret).deductions
            total == amt.overdue_trainings + amt.edas_past_6_months + amt.retrainings
            applied == {m \in DOMAIN amt : p[m] > 0}
        IN  /\ Val(ret).score = (IF 100 - total > 0 THEN 100 - total ELSE 0)
            /\ Len(ds) = Cardinality(applied)
            /\ \A m \in applied :
                   \E i \in 1..Len(ds) :
                       /\ ds[i].metric = m
                       /\ ds[i].value = p[m]
                       /\ ds[i].deduction_points = amt[m]
            /\ (call.rubric = "default" /\ p.overdue_trainings = 2
                  /\ p.edas_past_6_months = 1 /\ p.retrainings = 0)
                   => Val(ret).score = 30 /\ Len(ds) = 2

\* C16 happens: the default rubric scored overdue 2, edas 1, retrainings 0.
C16_Witness ==
    /\ RecruiterCall
    /\ call.rubric = "default"
    /\ call.payload = [overdue_trainings |-> 2, edas_past_6_months |-> 1, retrainings |-> 0]
    /\ Val(ret).score = 30
    /\ Len(Val(ret).deductions) = 2

SupervisorCall == call.kind = "score" /\ call.role = "supervisor" /\ ret # NULL

AdminCall == call.kind = "score" /\ call.role = "admin" /\ ret # NULL

\* What metric m of the call is charged when its key is known to the rubric:
\* the mapped rating, or the bucket deduction of the count, counted only
\* when positive.
KnownCharge(m) ==
    LET rubric == RubricDocs[call.rubric]
        d == IF call.role = "supervisor"
             THEN rubric.supervisor_rating_map[call.payload[m]]
             ELSE findDeductionForCount(call.payload[m], rubric.admin_rules.metrics[m])
    IN  IF d > 0 THEN d ELSE 0

\* The metrics of the call whose key the rubric does not know: a rating
\* label outside supervisor_rating_map, a metric outside admin_rules.metrics.
UnknownMetrics ==
    LET rubric == RubricDocs[call.rubric] IN
    IF call.role = "supervisor"
    THEN {m \in DOMAIN call.payload :
              call.payload[m] \notin DOMAIN rubric.supervisor_rating_map}
    ELSE DOMAIN call.payload \ DOMAIN rubric.admin_rules.metrics

\* C17: a supervisor rating label outside supervisor_rating_map and an admin
\* metric outside admin_rules.metrics deduct nothing and get no entry; the
\* scorer returns, and every other metric is charged and listed as usual.
C17_UnknownKeysSkipped ==
    (SupervisorCall \/ AdminCall) =>
        LET ds == Val(ret).deductions
            known == DOMAIN call.payload \ UnknownMetrics
            order == IF call.role = "supervisor" THEN SupervisorMetrics ELSE AdminMetrics
            Sum[j \in 1..(Len(order) + 1)] ==
                IF j > Len(order) THEN 0
                ELSE (IF order[j] \in known THEN KnownCharge(order[j]) ELSE 0) + Sum[j + 1]
        IN  /\ \A i \in 1..Len(ds) : ds[i].metric \notin UnknownMetrics
            /\ \A m \in known :
                   KnownCharge(m) > 0 =>
                       \E i \in 1..Len(ds) :
                           ds[i].metric = m /\ ds[i].deduction_points = KnownCharge(m)
            /\ Val(ret).score = (IF 100 - Sum[1] > 0 THEN 100 - Sum[1] ELSE 0)

\* C17 happens: a supervisor payload mixing a label the rubric lacks with a
\* label it penalises was scored, and only the known label was charged.
C17_Witness ==
    /\ SupervisorCall
    /\ UnknownMetrics # {}
    /\ Len(Val(ret).deductions) > 0
    /\ Val(ret).score < 100
    /\ Len(Val(ret).deductions) + Cardinality(UnknownMetrics) = Len(SupervisorMetrics)

\* C17, admin side: a count above 0 for a metric without rules was skipped
\* while another metric was charged.
C17_AdminSkipped ==
    /\ AdminCall
    /\ \E m \in UnknownMetrics : call.payload[m] > 0
    /\ Len(Val(ret).deductions) > 0

\* C18: every row of submissions_raw is still there, unchanged, after any
\* step of any request (supervisor submit, recompute, assignment PATCH,
\* initialize, roster upload), and the row of its (month, employee, role)
\* keeps its payload and submitter.
C18_SubmissionsImmutable ==
    [][\A row \in submissions_raw :
           /\ row \in submissions_raw'
           /\ \A other \in submissions_raw' :
                  SameUniqueKey(other, row) =>
                      /\ other.payload_json = row.payload_json
                      /\ other.submitted_by_email = row.submitted_by_email]_vars

\* C18 happens: a submission is stored, and an assignment PATCH and a roster
\* upload were both carried out.
C18_Witness ==
    /\ submissions_raw # {}
    /\ \E p \in Procs : req[p].kind = "patch" /\ pc[p] = "done" /\ loc[p].status = 200
    /\ \E p \in Procs : req[p].kind = "upload" /\ pc[p] = "done" /\ loc[p].status = 200
    /\ <<TargetMonth, "E400">> \in DOMAIN roster_monthly

AllowedToSubmit(session) ==
    \E r \in session.roles : r.role \in {"super_admin", "director", "admin", "house_manager"}

\* What the store must hold for the supervisor request of p to go through.
SubmitConditions(p) ==
    LET k == <<req[p].month, req[p].employeeId>> IN
    /\ AllowedToSubmit(req[p].session)
    /\ k \in DOMAIN roster_monthly /\ roster_monthly[k].is_active
    /\ k \in DOMAIN supervisor_assignments
    /\ ToLowerCase(supervisor_assignments[k].evaluator_email) = ToLowerCase(req[p].session.email)
    /\ supervisor_assignments[k].status # "completed"

Inserting(p) == pc[p] \in {"tx_insert", "tx_commit"}

InitializeStep(p) ==
    /\ req'[p].kind = "initialize"
    /\ <<pc[p], loc[p]>> # <<pc'[p], loc'[p]>>

\* C20: a step of an initialize call leaves every assignment row of the
\* target month as it is (evaluator_email, status, assigned_by_email), with
\* other initialize calls running or not; what it adds is the source
\* month's evaluator, so an active employee of the target roster without a
\* source assignment stays without one.
C20_InitializeKeepsExisting ==
    [][\A p \in Procs :
           InitializeStep(p) =>
               LET target == req'[p].targetMonth
                   source == req'[p].sourceMonth
               IN  /\ \A k \in DOMAIN supervisor_assignments :
                          /\ k \in DOMAIN supervisor_assignments'
                          /\ supervisor_assignments'[k] = supervisor_assignments[k]
                   /\ \A k \in DOMAIN supervisor_assignments' \ DOMAIN supervisor_assignments :
                          /\ k[1] = target
                          /\ <<source, k[2]>> \in DOMAIN supervisor_assignments
                          /\ supervisor_assignments'[k].evaluator_email =
                                 supervisor_assignments[<<source, k[2]>>].evaluator_email]_vars

\* C20 happens: of two initialize calls one committed and the other met the
\* row it had added; E100 keeps its assignment, E200 got February's
\* evaluator, E300 has none.
C20_Witness ==
    /\ \E p, q \in Procs :
          /\ req[p].kind = "initialize" /\ pc[p] = "done" /\ loc[p].status = 200
          /\ req[q].kind = "initialize" /\ pc[q] = "done" /\ loc[q].status = 500
    /\ supervisor_assignments[<<TargetMonth, "E100">>] =
           [evaluator_email |-> "hm1@gmail.com", status |-> "assigned",
            assigned_by_email |-> "admin@nes.org"]
    /\ <<TargetMonth, "E200">> \in DOMAIN supervisor_assignments
    /\ supervisor_assignments[<<TargetMonth, "E200">>].evaluator_email = "hm2@gmail.com"
    /\ <<TargetMonth, "E300">> \notin DOMAIN supervisor_assignments

\* The metric order each scorer is to follow.
MetricOrder ==
    [ supervisor |-> <<"attitude", "reliability", "proactivity", "flexibility",
                       "individual_interaction">>,
      admin |-> <<"isp_goal_errors", "isp_behavior_errors", "mar_errors",
                  "attendance_tardies_callouts", "attendance_ncns">>,
      recruiter |-> <<"overdue_trainings", "edas_past_6_months", "retrainings">> ]

RuleIdOf(role, metric) ==
    CASE role = "supervisor" -> "supervisor_rating_" \o metric
      [] role = "admin" -> "admin_" \o metric \o "_bucket"
      [] metric = "overdue_trainings" -> "recruiter_overdue_trainings"
      [] metric = "edas_past_6_months" -> "recruiter_eda_penalty"
      [] OTHER -> "recruiter_retraining_penalty"

PositionIn(order, metric) == CHOOSE i \in 1..Len(order) : order[i] = metric

\* C24: the entries of a scorer's deductions list follow the scorer's fixed
\* metric order, whatever the payload and the rubric, and each entry carries
\* the rule_id of its metric.
C24_DeductionsInMetricOrder ==
    (call.kind = "score" /\ ret # NULL) =>
        LET ds == Val(ret).deductions
            order == MetricOrder[call.role]
        IN  /\ \A i \in 1..Len(ds) :
                   /\ \E j \in 1..Len(order) : order[j] = ds[i].metric
                   /\ ds[i].rule_id = RuleIdOf(call.role, ds[i].metric)
            /\ \A i, j \in 1..Len(ds) :
                   i < j => PositionIn(order, ds[i].metric) < PositionIn(order, ds[j].metric)

\* C24 happens: an admin result lists three or more metrics.
C24_Witness ==
    /\ AdminCall
    /\ Len(Val(ret).deductions) >= 3
    /\ Val(ret).deductions[1].metric = "isp_goal_errors"

\* C25: whenever a supervisor submission is stored for (month, employee), the
\* supervisor_assignments row of that (month, employee), if there is one, has
\* status 'completed'.
C25_SubmittedMeansCompleted ==
    \A row \in submissions_raw :
        LET k == <<row.month, row.employee_id>> IN
        (row.role = "supervisor" /\ k \in DOMAIN supervisor_assignments)
            => supervisor_assignments[k].status = "completed"

\* C28: a supervisor request answered with an error has committed no
\* submission row, and a request whose row is committed is answered 200.
C28_ErrorMeansNothingCommitted ==
    \A p \in Procs :
        (req[p].kind = "supervisor" /\ pc[p] = "done") =>
            (loc[p].status # 200 <=> \A row \in submissions_raw : row.id # p)

\* C29: a score of the stored scores_computed row (a category score or the
\* final score) that is not null stays not null in the next state.
C29_ScoresNeverDisappear ==
    [][\A k \in DOMAIN scores_computed :
           /\ k \in DOMAIN scores_computed'
           /\ \A col \in {"admin_score", "supervisor_score", "recruiter_score", "final_score"} :
                  scores_computed[k][col] # NULL => scores_computed'[k][col] # NULL]_vars

\* The aggregation ran on three category scores under weights that are
\* non-negative percentages summing to 100.
AggregatedAll ==
    /\ call.kind = "aggregate" /\ ret # NULL
    /\ Val(ret).adminScore # NULL /\ Val(ret).supervisorScore # NULL
    /\ Val(ret).recruiterScore # NULL
    /\ LET w == RubricDocs[call.rubric].weights
       IN  /\ w.admin >= 0 /\ w.supervisor >= 0 /\ w.recruiter >= 0
           /\ w.admin + w.supervisor + w.recruiter = 100

CategoryValues ==
    {Val(Val(ret).adminScore), Val(Val(ret).supervisorScore), Val(Val(ret).recruiterScore)}

\* The part of C30 on the weighted mean: finalScore is an integer between
\* the least and the greatest category score.
C30_BetweenCategories ==
    AggregatedAll =>
        /\ Val(ret).finalScore # NULL
        /\ Val(Val(ret).finalScore) \in Int
        /\ \E lo, hi \in CategoryValues :
              /\ \A v \in CategoryValues : lo <= v /\ v <= hi
              /\ lo <= Val(Val(ret).finalScore) /\ Val(Val(ret).finalScore) <= hi

\* C30: with three category scores and non-negative weights summing to 1,
\* finalScore is an integer between the least and the greatest category
\* score, and between 0 and 100.
C30_FinalWithinRange ==
    /\ C30_BetweenCategories
    /\ AggregatedAll => (0 <= Val(Val(ret).finalScore) /\ Val(Val(ret).finalScore) <= 100)


\* A recompute of worker p stores its row in this step.
UpsertStep(p) == pc[p] = "upsert" /\ pc'[p] = "done" /\ loc'[p].status = 200

\* C22: after a recompute for (month, employee) has stored its row, every
\* column of the row (area, rubric_version, the three category scores,
\* final_score, deductions_json) is the value of that recompute, whatever
\* the row held before.
C22_RecomputeReplacesRow ==
    [][\A p \in Procs :
          UpsertStep(p) =>
              LET row == scores_computed'[Key(req[p])]
                  result == Val(loc'[p].result)
              IN  row = ScoreRow(loc[p].area, result, row.computed_at)]_vars

\* The recompute of worker q was lost after its submission was committed, and
\* no recompute of the same employee has stored a row since, up to worker p.
LostBefore(q, p) ==
    /\ q < p
    /\ req[q].kind \in {"supervisor", "admin", "recruiter", "recompute"}
    /\ Key(req[q]) = Key(req[p])
    /\ pc[q] = "done" /\ loc[q].failedAt # "" /\ loc[q].status # 200
    /\ \A r \in Procs : (q < r /\ r < p /\ req[r].kind # "none" /\ req[r].kind # "upload")
                            => ~(Completed(r) /\ loc[r].result # NULL)

\* The row the lost recompute of q would have stored: the scores of the
\* submissions committed up to q, under the rubric of the month.
LostRow(q) ==
    LET rubric == getRubricForMonth(req[q].month, rubric_versions)
        rows == { [role |-> row.role, payload_json |-> row.payload_json] :
                    row \in {r \in submissions_raw :
                                /\ r.month = req[q].month
                                /\ r.employee_id = req[q].employeeId
                                /\ r.id <= q} }
    IN  ScoreRow(loc[q].area,
                 ComputedScore(rows, rubric.version, RubricDocs[rubric.rubric]), 0)

\* C23: when a recompute was lost after the commit of its submission, the
\* next recompute of the same employee leaves the row that the timeline
\* without the loss ends with, computed_at apart.
C23_LostRecomputeRepaired ==
    [][\A p, q \in Procs :
          (UpsertStep(p) /\ LostBefore(q, p)) =>
              LET k == Key(req[p])
                  mine == ScoreRow(loc[p].area, Val(loc'[p].result), 0)
                  unbroken == Upsert(Upsert(scores_computed, k, LostRow(q)), k, mine)[k]
              IN  [scores_computed'[k] EXCEPT !.computed_at = 0] = unbroken]_vars

\* The part of C23 that does not depend on the area: the repaired row and the
\* row of the timeline without the loss agree on every column but area and
\* computed_at.
C23_RepairedApartFromArea ==
    [][\A p, q \in Procs :
          (UpsertStep(p) /\ LostBefore(q, p)) =>
              LET k == Key(req[p])
                  mine == ScoreRow(loc[p].area, Val(loc'[p].result), 0)
                  unbroken == Upsert(Upsert(scores_computed, k, LostRow(q)), k, mine)[k]
              IN  [scores_computed'[k] EXCEPT !.computed_at = 0, !.area = ""]
                     = [unbroken EXCEPT !.area = ""]]_vars

Verified(p) ==
    /\ pc[p] = "done" /\ req[p].kind = "verify"
    /\ Val(loc[p].result) # NULL

\* The part of C21 on later calls: a verification that starts after the
\* token was accepted returns null.
C21_NullAfterSuccess ==
    \A p \in Procs :
        (pc[p] = "done" /\ req[p].kind = "verify" /\ req[p].after # {})
            => Val(loc[p].result) = NULL

\* The part of C21 on expiry: a token is accepted only before its expires_at.
C21_ExpiredRefused ==
    \A p \in Procs :
        Verified(p) => \A t \in loc[p].rows : req[p].at < t.expires_at

\* C21: a magic-link token is single-use: over any interleaving of
\* verifyMagicLinkToken calls at most one call returns the email for a
\* token, a call that starts after a successful one returns null, and a
\* token past its expires_at is never accepted.
C21_TokenSingleUse ==
    /\ \A p, q \in Procs :
          (Verified(p) /\ Verified(q) /\ req[p].token = req[q].token) => p = q
    /\ C21_NullAfterSuccess
    /\ C21_ExpiredRefused

\* C27: requestMagicLink answers the same {success, message} for the email
\* of an active user, when the message is delivered, as for an email with
\* no active user.
C27_SameAnswerWhetherAccountExists ==
    \A p, q \in Procs :
        ( /\ pc[p] = "done" /\ req[p].kind = "requestMagicLink"
          /\ pc[q] = "done" /\ req[q].kind = "requestMagicLink"
          /\ ActiveUser(req[p].email) /\ req[p].delivers
          /\ ~ActiveUser(req[q].email) )
            => loc[p].result = loc[q].result

\* The session has neither a global role nor a role in the area 'global'.
AreaBound(session) == ~hasGlobalAccess(session)

\* The areas in which the session holds a role that may view the dashboard.
ViewingAreas(session) ==
    {r.area : r \in {x \in session.roles : x.role \in {"director", "admin", "recruiter"}}}

\* The part of C26 on the user's areas: an area-bound session gets no staff
\* row of an area in which it holds no role at all.
C26_WithinUserAreas ==
    (call.kind = "dashboard" /\ ret # NULL /\ AreaBound(call.session)) =>
        \A row \in Val(ret).staff : row.area \in {r.area : r \in call.session.roles}

\* C26: a session with no global role and no role in the area 'global' gets
\* no staff row of an area outside those in which it is director, admin or
\* recruiter, and a session with no area gets no staff row.
C26_OnlyOwnAreas ==
    (call.kind = "dashboard" /\ ret # NULL /\ AreaBound(call.session)) =>
        /\ \A row \in Val(ret).staff : row.area \in ViewingAreas(call.session)
        /\ call.session.roles = {} => Val(ret).staff = {}
=============================================================================
